---- MODULE Spec2Model ----
(***************************************************************************)
(* WeirdSynths sensor bridge: the lock-free double buffer that hands the   *)
(* latest snapshot from a UDP receive thread to the audio tick, the        *)
(* packet parsers, the receive loops, the listener life cycle and the      *)
(* per-tick consumers.                                                     *)
(*                                                                         *)
(* The module holds several specifications over one set of variables;      *)
(* each specification moves one group of variables and leaves the others   *)
(* at their initial value.                                                 *)
(*   SpecChan   one writer and one reader on a DoubleBuffer<T> /           *)
(*              FaceDataBuffer, interleaved store by store                 *)
(*   SpecCodec  parsePacket, parseKintPacket and parseSkelPacket applied   *)
(*              to datagrams drawn from a bounded family                   *)
(*   SpecRecv   the bodies of the three receive loops, one datagram each   *)
(*   SpecLsn    nerve::UDPListener driven by the audio tick's periodic     *)
(*              check and by the port field of the context menu            *)
(*   SpecApi    nerve::UDPListener under one thread calling start() and    *)
(*              stop() in any order                                        *)
(*   SpecFace   the face consumer's tick, Nerve::process                   *)
(*   SpecDepth  the depth consumer's tick, Depth::process                  *)
(*   SpecDsp    skull::GestureTrigger::process and the gate and pitch part *)
(*              of Voice::process, on arbitrary inputs                     *)
(*   SpecSweep  a GestureTrigger of skull::DrumEngine under an input that  *)
(*              sweeps from 0 up to 1 and back                             *)
(*   SpecOnset  OnsetDetector::pushSample                                  *)
(*   SpecYin    YINDetector::pushSample and the quality preset             *)
(*   SpecFps    the packets-per-second counter of a receive loop           *)
(*   SpecSlew   nerve::SlewSmoother as Nerve::process drives it            *)
(*   SpecLag    the lag selection of YINDetector::analyze on any curve     *)
(*   SpecDLsn   depth::DepthUDPListener with its two receive threads       *)
(*   SpecSilence  Voice::process with its envelope follower, on audio      *)
(*              that falls silent                                          *)
(***************************************************************************)
EXTENDS Integers, Sequences, FiniteSets, TLC

VARIABLES
    chan,       \* SpecChan: the channel, [buffers, active, version]
    writer,     \* SpecChan: the thread inside write(): [pc, inactive, data, field]
    reader,     \* SpecChan: the consumer tick: [pc, ver, idx, got, field, since]
    nWrites,    \* SpecChan: history, calls of write() that have returned
    nFlips,     \* SpecChan: history, stores to the active index
    lastRead,   \* SpecChan: history, the fields the last finished tick used
    decoded,    \* SpecCodec: the datagram last parsed and what the parser returned
    faceBuf,    \* Nerve::faceDataBuffer
    depthBuf,   \* Depth::depthBuf
    skelBuf,    \* Depth::skelBuf
    lastBodyCount, \* DepthUDPListener::lastBodyCount
    clock,      \* steady_clock, microseconds
    nDatagrams, \* SpecRecv: history, datagrams received so far
    lastRx,     \* SpecRecv: history, the datagram last handled and its outcome
    lsn,        \* nerve::UDPListener: [running, shouldStop, listenPort, handle]
    threads,    \* SpecLsn: the threads start() created, in order of creation
    ctl,        \* SpecLsn: where each controlling thread is inside start()/stop()
    camEnabled, \* Nerve: params[CAM_PARAM] > 0.5f
    udpPort,    \* Nerve::udpPort
    crashed,    \* SpecLsn: "no", or the call in which std::terminate was reached
    quiet,      \* SpecLsn: history, a stop() has returned and no start() was called since
    nerve,      \* SpecFace: Nerve's tick state and its last targets
    depth,      \* SpecDepth: Depth's tick state and its last targets
    trig,       \* SpecDsp: a skull::GestureTrigger and the call last made on it
    sweep,      \* SpecSweep: a GestureTrigger of DrumEngine under a sweep
    voice,      \* SpecDsp: Voice's gate and pitch state and the tick last made
    onset,      \* SpecOnset: OnsetDetector and the samples pushed
    yin,        \* SpecYin: YINDetector, Voice::qualityMode, the two threads
    fps,        \* SpecFps: the packet rate counter of a receive loop
    slew,       \* SpecSlew: a nerve::SlewSmoother and the tick last made on it
    lag,        \* SpecLag: the curve YINDetector::analyze searches and its result
    dlsn        \* SpecDLsn: depth::DepthUDPListener, its two threads and its caller

chanVars == <<chan, writer, reader, nWrites, nFlips, lastRead>>
codecVars == <<decoded>>
bufVars == <<faceBuf, depthBuf, skelBuf, lastBodyCount, clock>>
recvVars == <<nDatagrams, lastRx>>
lsnVars == <<lsn, threads, ctl, camEnabled, udpPort, crashed, quiet>>
tickVars == <<nerve, depth>>
netVars == <<chanVars, codecVars, bufVars, recvVars, lsnVars, tickVars>>
dspVars == <<trig, sweep, voice, onset, yin>>
auxVars == <<fps, slew, lag, dlsn>>

vars == <<netVars, dspVars, auxVars>>

\* what the actions of each specification leave alone
ChanFrame == UNCHANGED <<codecVars, bufVars, recvVars, lsnVars, tickVars, dspVars, auxVars>>
CodecFrame == UNCHANGED <<chanVars, bufVars, recvVars, lsnVars, tickVars, dspVars, auxVars>>
RecvFrame == UNCHANGED <<chanVars, codecVars, lsnVars, tickVars, dspVars, auxVars>>
LsnFrame ==
    UNCHANGED <<chanVars, codecVars, recvVars, tickVars, dspVars, auxVars,
                depthBuf, skelBuf, lastBodyCount, clock>>
FaceFrame ==
    UNCHANGED <<chanVars, codecVars, recvVars, lsnVars, depth, dspVars, auxVars,
                depthBuf, skelBuf, lastBodyCount, clock>>
DepthFrame ==
    UNCHANGED <<chanVars, codecVars, recvVars, lsnVars, nerve, dspVars, auxVars,
                faceBuf, skelBuf, lastBodyCount, clock>>
TrigFrame == UNCHANGED <<netVars, auxVars, sweep, voice, onset, yin>>
SweepFrame == UNCHANGED <<netVars, auxVars, trig, voice, onset, yin>>
VoiceFrame == UNCHANGED <<netVars, auxVars, trig, sweep, onset, yin>>
OnsetFrame == UNCHANGED <<netVars, auxVars, trig, sweep, voice, yin>>
YinFrame == UNCHANGED <<netVars, auxVars, trig, sweep, voice, onset>>
FpsFrame == UNCHANGED <<netVars, dspVars, slew, lag, dlsn>>
SlewFrame == UNCHANGED <<netVars, dspVars, fps, lag, dlsn>>
LagFrame == UNCHANGED <<netVars, dspVars, fps, slew, dlsn>>
DLsnFrame ==
    UNCHANGED <<chanVars, codecVars, recvVars, lsnVars, tickVars, dspVars,
                fps, slew, lag, faceBuf, clock>>

----------------------------------------------------------------------------
(* Bounds of the channel model *)

\* number of write() calls the writer makes
MaxWrites == 3
\* number of fields of T that the copy stores one after the other
NFields == 2

Fields == 1..NFields

\* T: the i-th value written has every field equal to i, the value the
\* buffers are constructed with has every field equal to 0
ValueOf(i) == [f \in Fields |-> i]

----------------------------------------------------------------------------
(* DoubleBuffer<T> / FaceDataBuffer, one operator per statement *)

\* buffers[2], active{0}, version{0}
NewBuffer(initial) ==
    [buffers |-> [s \in 0..1 |-> initial], active |-> 0, version |-> 0]

\* int inactive = 1 - active.load(relaxed)
InactiveOf(b) == 1 - b.active

\* a copy that stores nothing
StoreFieldDropped(b, inactive, f, v) == b

\* one field store of  buffers[inactive] = data
StoreField(b, inactive, f, v) == [b EXCEPT !.buffers[inactive][f] = v]

\* the whole assignment  buffers[inactive] = data
StoreSlot(b, inactive, data) == [b EXCEPT !.buffers[inactive] = data]

\* a write() that forgets to publish the slot it filled
StoreActiveLost(b, inactive) == b

\* active.store(inactive, release)
StoreActive(b, inactive) == [b EXCEPT !.active = inactive]

\* version.fetch_add(1, release)
FetchAddVersion(b) == [b EXCEPT !.version = @ + 1]

\* write(data) run without interruption
BufWrite(b, data) ==
    LET inactive == InactiveOf(b)
    IN  FetchAddVersion(StoreActive(StoreSlot(b, inactive, data), inactive))

\* read(): the index loaded from active; the caller keeps a reference to
\* buffers[idx] and loads its fields later
ReadIndex(b) == b.active

\* getVersion()
GetVersion(b) == b.version

----------------------------------------------------------------------------
(* SpecChan: writer thread *)

WriterIdle == [pc |-> "idle", inactive |-> 0, data |-> ValueOf(0), field |-> 1]

\* the receive loop calls write(v_i): the relaxed load of active
WriteBegin ==
    /\ writer.pc = "idle"
    /\ nWrites + 1 <= MaxWrites
    /\ writer' = [pc |-> "copy", inactive |-> InactiveOf(chan),
                  data |-> ValueOf(nWrites + 1), field |-> 1]
    /\ UNCHANGED <<chan, reader, nWrites, nFlips, lastRead>>
    /\ ChanFrame

\* buffers[inactive] = data, one field at a time
WriteCopy ==
    /\ writer.pc = "copy"
    /\ chan' = StoreField(chan, writer.inactive, writer.field,
                          writer.data[writer.field])
    /\ writer' = IF writer.field = NFields
                 THEN [writer EXCEPT !.pc = "flip"]
                 ELSE [writer EXCEPT !.field = @ + 1]
    /\ UNCHANGED <<reader, nWrites, nFlips, lastRead>>
    /\ ChanFrame

\* active.store(inactive)
WriteFlip ==
    /\ writer.pc = "flip"
    /\ chan' = StoreActive(chan, writer.inactive)
    /\ writer' = [writer EXCEPT !.pc = "bump"]
    /\ nFlips' = nFlips + 1
    /\ UNCHANGED <<reader, nWrites, lastRead>>
    /\ ChanFrame

\* version.fetch_add(1); write() returns
WriteBump ==
    /\ writer.pc = "bump"
    /\ chan' = FetchAddVersion(chan)
    /\ writer' = WriterIdle
    /\ nWrites' = nWrites + 1
    /\ UNCHANGED <<reader, nFlips, lastRead>>
    /\ ChanFrame

----------------------------------------------------------------------------
(* SpecChan: reader, the consumer's tick *)

\* since is history: the number of completed writes when read() selected
\* the slot, if no write was in progress then, and -1 otherwise
ReaderIdle ==
    [pc |-> "idle", ver |-> 0, idx |-> 0, got |-> ValueOf(0), field |-> 1,
     since |-> -1]

\* Depth::process: uint64_t version = depthBuf.getVersion()
ReadVersion ==
    /\ reader.pc = "idle"
    /\ reader' = [ReaderIdle EXCEPT !.pc = "versioned", !.ver = GetVersion(chan)]
    /\ UNCHANGED <<chan, writer, nWrites, nFlips, lastRead>>
    /\ ChanFrame

\* const T& d = buf.read(): the acquire load of active
\* (Nerve::process calls read() first; Depth::process after getVersion())
ReadSelect ==
    /\ reader.pc \in {"idle", "versioned"}
    /\ reader' = [reader EXCEPT !.pc = "fields", !.idx = ReadIndex(chan), !.field = 1,
                                !.since = IF writer.pc = "idle" THEN nWrites ELSE -1]
    /\ UNCHANGED <<chan, writer, nWrites, nFlips, lastRead>>
    /\ ChanFrame

\* the tick uses one field of the referenced slot
ReadField ==
    /\ reader.pc = "fields"
    /\ LET v == chan.buffers[reader.idx][reader.field]
           g == [reader.got EXCEPT ![reader.field] = v]
       IN  IF reader.field = NFields
           THEN /\ reader' = ReaderIdle
                /\ lastRead' = g
           ELSE /\ reader' = [reader EXCEPT !.got = g, !.field = @ + 1]
                /\ UNCHANGED lastRead
    /\ UNCHANGED <<chan, writer, nWrites, nFlips>>
    /\ ChanFrame

----------------------------------------------------------------------------
InitChan ==
    /\ chan = NewBuffer(ValueOf(0))
    /\ writer = WriterIdle
    /\ reader = ReaderIdle
    /\ nWrites = 0
    /\ nFlips = 0
    /\ lastRead = ValueOf(0)

NextChan ==
    \/ WriteBegin
    \/ WriteCopy
    \/ WriteFlip
    \/ WriteBump
    \/ ReadVersion
    \/ ReadSelect
    \/ ReadField

----------------------------------------------------------------------------
(* Claims about the channel, checked under SpecChan *)

\* C1: all fields a tick obtains from one read() are the fields of one
\* single written value (or of the initial value), never a mix of two.
C1_ReadIsOneValue ==
    \A f, g \in Fields : lastRead[f] = lastRead[g]

\* C10: write() publishes in the order copy, flip, increment: the version
\* counter equals the number of write() calls that have returned whenever no
\* write is in progress and is never ahead of the number of flips of the
\* active index; and after getVersion() has returned k >= 1, the slot a
\* following read() selects holds the k-th written value or a later one, in
\* every field, and so does every field the tick obtains from it.
C10_VersionNeverAhead ==
    /\ chan.version <= nFlips
    /\ nFlips <= chan.version + 1
    /\ (writer.pc = "idle" => chan.version = nWrites /\ nFlips = nWrites)
    /\ (reader.pc = "fields" /\ reader.ver >= 1 =>
            /\ \A f \in Fields : chan.buffers[reader.idx][f] >= reader.ver
            /\ \A f \in 1..(reader.field - 1) : reader.got[f] >= reader.ver)

\* the reader saw version 1 and then selected a slot that already holds the
\* second value, while the third write is copying into the other slot
C10_Witness ==
    /\ reader.pc = "fields"
    /\ reader.ver = 1
    /\ chan.buffers[reader.idx] = ValueOf(2)
    /\ writer.pc = "copy"

\* C11: whenever no write is in progress, n writes having completed, the
\* slot read() selects holds the n-th written value in every field, and a
\* read() made since the n-th write completed has obtained only fields of
\* that value, however many earlier writes the reader never looked at.
C11_LatestValue ==
    writer.pc = "idle" =>
        /\ chan.buffers[ReadIndex(chan)] = ValueOf(nWrites)
        /\ (reader.pc = "fields" /\ reader.since = nWrites) =>
               /\ reader.idx = ReadIndex(chan)
               /\ \A f \in 1..(reader.field - 1) : reader.got[f] = nWrites

\* the reader last looked at the first value, skipped the second, and is
\* reading the third with no write in progress
C11_Witness ==
    /\ writer.pc = "idle"
    /\ nWrites = 3
    /\ lastRead = ValueOf(1)
    /\ reader.pc = "fields"
    /\ reader.since = 3
    /\ reader.field = 2
    /\ reader.got[1] = 3

----------------------------------------------------------------------------
(* float32 values.  A value is a number in quarters (1.f is F(4), 0.5f is  *)
(* F(2)), an infinity or a NaN; the comparisons and fmin/fmax follow IEEE. *)

F(n) == [k |-> "num", v |-> n]
PInf == [k |-> "inf", v |-> 1]
NInf == [k |-> "inf", v |-> -1]
NaN  == [k |-> "nan", v |-> 0]

FZero == F(0)
FOne == F(4)
FMinusOne == F(-4)
FHalf == F(2)

\* a < b on floats: false when either is a NaN
FLess(a, b) ==
    /\ a.k # "nan"
    /\ b.k # "nan"
    /\ CASE a.k = "inf" /\ a.v = 1  -> FALSE
         [] a.k = "inf" /\ a.v = -1 -> ~(b.k = "inf" /\ b.v = -1)
         [] b.k = "inf"             -> b.v = 1
         [] OTHER                   -> a.v < b.v

\* std::fmin and std::fmax: a NaN argument yields the other argument
FMin(x, y) == IF x.k = "nan" THEN y ELSE IF y.k = "nan" THEN x
              ELSE IF FLess(y, x) THEN y ELSE x
FMax(x, y) == IF x.k = "nan" THEN y ELSE IF y.k = "nan" THEN x
              ELSE IF FLess(x, y) THEN y ELSE x

\* rack::math::clamp(x, a, b) == std::fmax(std::fmin(x, b), a)
Clamp(x, a, b) == FMax(FMin(x, b), a)

\* a blink channel that is clamped like its neighbours, not thresholded
BlinkClamped(x) == Clamp(x, FZero, FOne)

\* readFloat(off) > 0.5f ? 1.f : 0.f
Blink(x) == IF FLess(FHalf, x) THEN FOne ELSE FZero

\* the float32 a 32-bit word holds; the words of the model are 0 .. 10
FloatTable ==
    << F(0), F(2), F(3), F(4), F(6), F(-2), F(-4), F(-8), PInf, NInf, NaN >>
NRawWords == Len(FloatTable)
RawWords == 0..(NRawWords - 1)
FloatOf(w) == FloatTable[w + 1]

\* the uint64 two consecutive little-endian words hold
U64Of(lo, hi) == lo + hi * NRawWords

----------------------------------------------------------------------------
(* Datagrams.  A datagram is its header fields, its received length and    *)
(* the words of its body: nfl float words (word j holds raw word           *)
(* (a + j) mod NRawWords), then the two words of the sender's timestamp.   *)

NERVE_HEADER_SIZE == 8
NERVE_V1_PACKET_SIZE == 84
NERVE_V2_PACKET_SIZE == 100
KINT_PACKET_SIZE == 48
SKEL_MIN_SIZE == 16
MAX_SKEL_BODIES == 2
MAX_SKEL_JOINTS == 32

Datagram(magic, ver, b6, b7, len, nfl, a, ts) ==
    [magic |-> magic, ver |-> ver, b6 |-> b6, b7 |-> b7, len |-> len,
     nfl |-> nfl, a |-> a, ts |-> ts]

\* body word j (byte offset 8 + 4j) of the datagram
Word(pkt, j) ==
    IF j < pkt.nfl THEN (pkt.a + j) % NRawWords
    ELSE IF j = pkt.nfl THEN pkt.ts % NRawWords
    ELSE IF j = pkt.nfl + 1 THEN pkt.ts \div NRawWords
    ELSE 0

\* std::memcpy(&val, buf + off, 4) of a float, off a byte offset in buf
ReadFloat(pkt, off) == FloatOf(Word(pkt, (off - 8) \div 4))

\* std::memcpy(&out.timestamp, buf + off, 8)
ReadU64(pkt, off) ==
    U64Of(Word(pkt, (off - 8) \div 4), Word(pkt, (off - 8) \div 4 + 1))

\* the uint16 at bytes 6-7 (NERV face count): b6 is the low byte
U16At6(pkt) == pkt.b6 + 256 * pkt.b7

----------------------------------------------------------------------------
(* nerve::parsePacket *)

FaceDataDefault ==
    [headX |-> FZero, headY |-> FZero, headZ |-> FZero, headDist |-> FZero,
     leftEye |-> FZero, rightEye |-> FZero, gazeX |-> FZero, gazeY |-> FZero,
     mouthW |-> FZero, mouthH |-> FZero, jaw |-> FZero, lips |-> FZero,
     browL |-> FZero, browR |-> FZero, blinkL |-> FZero, blinkR |-> FZero,
     expression |-> FZero, tongue |-> FZero, browInnerUp |-> FZero,
     browDownL |-> FZero, browDownR |-> FZero,
     timestamp |-> 0, faceCount |-> 0, valid |-> FALSE]

\* if (version >= 2 && len >= NERVE_V2_PACKET_SIZE)
NervUsesV2(pkt) == pkt.ver >= 2 /\ pkt.len >= NERVE_V2_PACKET_SIZE

\* the early returns of parsePacket
NervRejected(pkt) ==
    \/ pkt.len < NERVE_V1_PACKET_SIZE
    \/ pkt.magic # "NERV"
    \/ pkt.ver < 1 \/ pkt.ver > 2
    \/ U16At6(pkt) < 1 \/ U16At6(pkt) > 4

ParsePacket(pkt) ==
    IF NervRejected(pkt) THEN [ok |-> FALSE, out |-> FaceDataDefault]
    ELSE
    LET rf(off) == ReadFloat(pkt, NERVE_HEADER_SIZE + off)
        v2 == NervUsesV2(pkt)
    IN  [ok |-> TRUE,
         out |->
           [headX      |-> Clamp(rf(0),  FMinusOne, FOne),
            headY      |-> Clamp(rf(4),  FMinusOne, FOne),
            headZ      |-> Clamp(rf(8),  FMinusOne, FOne),
            headDist   |-> Clamp(rf(12), FZero, FOne),
            leftEye    |-> Clamp(rf(16), FZero, FOne),
            rightEye   |-> Clamp(rf(20), FZero, FOne),
            gazeX      |-> Clamp(rf(24), FMinusOne, FOne),
            gazeY      |-> Clamp(rf(28), FMinusOne, FOne),
            mouthW     |-> Clamp(rf(32), FZero, FOne),
            mouthH     |-> Clamp(rf(36), FZero, FOne),
            jaw        |-> Clamp(rf(40), FZero, FOne),
            lips       |-> Clamp(rf(44), FZero, FOne),
            browL      |-> Clamp(rf(48), FZero, FOne),
            browR      |-> Clamp(rf(52), FZero, FOne),
            blinkL     |-> Blink(rf(56)),
            blinkR     |-> Blink(rf(60)),
            expression |-> Clamp(rf(64), FZero, FOne),
            tongue      |-> IF v2 THEN Clamp(rf(68), FZero, FOne) ELSE FZero,
            browInnerUp |-> IF v2 THEN Clamp(rf(72), FZero, FOne) ELSE FZero,
            browDownL   |-> IF v2 THEN Clamp(rf(76), FZero, FOne) ELSE FZero,
            browDownR   |-> IF v2 THEN Clamp(rf(80), FZero, FOne) ELSE FZero,
            timestamp   |-> IF v2 THEN ReadU64(pkt, NERVE_HEADER_SIZE + 84)
                                  ELSE ReadU64(pkt, NERVE_HEADER_SIZE + 68),
            faceCount   |-> U16At6(pkt),
            valid       |-> TRUE]]

----------------------------------------------------------------------------
(* depth::parseKintPacket *)

DepthDataDefault ==
    [cvs |-> [dist |-> FZero, motion |-> FZero, cntX |-> FZero, cntY |-> FZero,
              area |-> FZero, depthL |-> FZero, depthR |-> FZero,
              entropy |-> FZero],
     source |-> 255, bodyCount |-> 0, timestamp |-> 0, valid |-> FALSE]

KintRejected(pkt) ==
    \/ pkt.len < KINT_PACKET_SIZE
    \/ pkt.magic # "KINT"
    \/ pkt.ver # 1

ParseKintPacket(pkt) ==
    IF KintRejected(pkt) THEN [ok |-> FALSE, out |-> DepthDataDefault]
    ELSE
    LET rf(off) == ReadFloat(pkt, 8 + off)
    IN  [ok |-> TRUE,
         out |->
           [cvs |-> [dist    |-> Clamp(rf(0),  FZero, FOne),
                     motion  |-> Clamp(rf(4),  FZero, FOne),
                     cntX    |-> Clamp(rf(8),  FMinusOne, FOne),
                     cntY    |-> Clamp(rf(12), FMinusOne, FOne),
                     area    |-> Clamp(rf(16), FZero, FOne),
                     depthL  |-> Clamp(rf(20), FZero, FOne),
                     depthR  |-> Clamp(rf(24), FZero, FOne),
                     entropy |-> Clamp(rf(28), FZero, FOne)],
            source |-> pkt.b6,
            bodyCount |-> pkt.b7,
            timestamp |-> ReadU64(pkt, 40),
            valid |-> TRUE]]

----------------------------------------------------------------------------
(* depth::parseSkelPacket *)

JointIndex == 0..(MAX_SKEL_JOINTS - 1)
JointZero == [x |-> FZero, y |-> FZero, z |-> FZero]

\* joints[MAX_SKEL_JOINTS] = {}: the array is kept as the joints that were
\* stored into it, every other element being the zero joint
JointAt(body, i) == IF i \in DOMAIN body.joints THEN body.joints[i] ELSE JointZero

SkeletonBodyDefault ==
    [bodyIndex |-> 0, jointCount |-> 0, joints |-> << >>, valid |-> FALSE]

SkeletonDataDefault ==
    [bodies |-> [b \in 0..(MAX_SKEL_BODIES - 1) |-> SkeletonBodyDefault],
     bodyCount |-> 0, timestamp |-> 0]

Min(a, b) == IF a < b THEN a ELSE b
Max(a, b) == IF a > b THEN a ELSE b

\* out.jointCount = static_cast<uint8_t>(buf[7])
SkelStoredCount(pkt) == pkt.b7

\* a joint count taken from the wire as it is
SkelJcUnclamped(pkt) == SkelStoredCount(pkt)

\* int jc = std::min<int>(out.jointCount, MAX_SKEL_JOINTS)
SkelJc(pkt) == Min(SkelStoredCount(pkt), MAX_SKEL_JOINTS)

\* int expected = 8 + jc * 12 + 8
SkelExpected(pkt) == 8 + SkelJc(pkt) * 12 + 8

\* the end of the bytes of buf that parseSkelPacket reads: nothing below
\* SKEL_MIN_SIZE, then the magic tag, the version, the two count bytes, and
\* jc joints of 12 bytes from byte 8
SkelReadEnd(pkt) ==
    IF pkt.len < SKEL_MIN_SIZE THEN 0
    ELSE IF pkt.magic # "SKEL" THEN 4
    ELSE IF pkt.ver # 1 THEN 6
    ELSE IF pkt.len < SkelExpected(pkt) THEN 8
    ELSE 8 + SkelJc(pkt) * 12

SkelRejected(pkt) ==
    \/ pkt.len < SKEL_MIN_SIZE
    \/ pkt.magic # "SKEL"
    \/ pkt.ver # 1
    \/ pkt.len < SkelExpected(pkt)

\* the loop over i < jc: memcpy of x, y, z at buf + 8 + i * 12, then clamp
SkelJoint(pkt, i) ==
    [x |-> Clamp(ReadFloat(pkt, 8 + i * 12 + 0), FMinusOne, FOne),
     y |-> Clamp(ReadFloat(pkt, 8 + i * 12 + 4), FMinusOne, FOne),
     z |-> Clamp(ReadFloat(pkt, 8 + i * 12 + 8), FMinusOne, FOne)]

\* jc in the result is the number of joints the loop decoded (history)
ParseSkelPacket(pkt) ==
    IF SkelRejected(pkt)
    THEN [ok |-> FALSE, out |-> SkeletonBodyDefault, jc |-> 0]
         \* (a body refused for its length has bodyIndex and jointCount
         \* already stored; no caller looks at a refused body)
    ELSE [ok |-> TRUE,
          out |-> [bodyIndex |-> pkt.b6,
                   jointCount |-> SkelStoredCount(pkt),
                   joints |-> [i \in 0..(SkelJc(pkt) - 1) |-> SkelJoint(pkt, i)],
                   valid |-> TRUE],
          jc |-> SkelJc(pkt)]

----------------------------------------------------------------------------
(* SpecCodec: every parser applied to a datagram of a bounded family *)

Family(Magics, Vers, B6s, B7s, Lens, Nfls, As, Tss) ==
    { Datagram(m, v, b6, b7, l, n, a, t) :
        m \in Magics, v \in Vers, b6 \in B6s, b7 \in B7s, l \in Lens,
        n \in Nfls, a \in As, t \in Tss }

\* face datagrams: both layouts as sent and the layout of the README (20
\* float words, then the timestamp at byte 88), every declared version
\* around the supported ones, face counts around 1..4, lengths around 84,
\* 96 and 100
CodecNerv ==
    Family({"NERV", "NERW"}, 0..3, {0, 1, 4, 5}, {0, 1},
           {83, 84, 96, 99, 100, 104}, {17, 20, 21}, RawWords, {0, 5})

\* depth datagrams
CodecKint ==
    Family({"KINT", "NERV"}, 0..2, {0, 3, 255}, {0, 1, 3, 255},
           {47, 48, 52}, {8}, RawWords, {0, 5})

\* skeleton datagrams: joint counts around the capacity 32, body indices
\* around the capacity 2, lengths around 16, 28, 40, 400 and 496
CodecSkel ==
    Family({"SKEL", "KINT"}, 1..2, {0, 1, 255}, {0, 1, 2, 32, 33, 40, 255},
           {15, 16, 28, 40, 399, 400, 496, 2048}, {3, 96, 120}, RawWords, {5})

CodecDatagrams == CodecNerv \cup CodecKint \cup CodecSkel

NoResult == [ok |-> FALSE]

InitCodec ==
    decoded \in { [pkt |-> p, by |-> "none", res |-> NoResult] : p \in CodecDatagrams }

DecodeNerv ==
    /\ decoded.by = "none"
    /\ decoded' = [decoded EXCEPT !.by = "parsePacket", !.res = ParsePacket(decoded.pkt)]
    /\ CodecFrame

DecodeKint ==
    /\ decoded.by = "none"
    /\ decoded' = [decoded EXCEPT !.by = "parseKintPacket",
                                  !.res = ParseKintPacket(decoded.pkt)]
    /\ CodecFrame

DecodeSkel ==
    /\ decoded.by = "none"
    /\ decoded' = [decoded EXCEPT !.by = "parseSkelPacket",
                                  !.res = ParseSkelPacket(decoded.pkt)]
    /\ CodecFrame

----------------------------------------------------------------------------
(* SpecRecv: the bodies of the receive loops *)

\* number of datagrams the sockets deliver
MaxDatagrams == 2

\* recvfrom returned n <= 0
NoDatagram == Datagram("", 0, 0, 0, 0, 0, 0, 0)

RecvNervFamily ==
    { Datagram("NERV", 1, 1, 0, 84, 17, 4, 5),     \* version 1
      Datagram("NERV", 2, 1, 0, 100, 21, 4, 5),    \* version 2
      Datagram("NERV", 2, 2, 0, 100, 21, 1, 0),    \* version 2, no timestamp
      Datagram("NERV", 2, 1, 0, 84, 21, 4, 5),     \* version 2 cut to 84 bytes
      Datagram("NERV", 2, 1, 0, 99, 21, 4, 5),     \* version 2 cut to 99 bytes
      Datagram("NERV", 1, 1, 0, 83, 17, 4, 5),     \* version 1 cut to 83 bytes
      Datagram("NERW", 2, 1, 0, 100, 21, 4, 5),    \* wrong magic
      Datagram("NERV", 3, 1, 0, 100, 21, 4, 5),    \* unknown version
      Datagram("NERV", 0, 1, 0, 100, 21, 4, 5),
      Datagram("NERV", 2, 5, 0, 100, 21, 4, 5) }   \* five faces

RecvKintFamily ==
    { Datagram("KINT", 1, 3, 2, 48, 8, 4, 5),
      Datagram("KINT", 1, 0, 0, 48, 8, 7, 0),      \* no timestamp
      Datagram("KINT", 1, 3, 2, 47, 8, 4, 5),      \* cut to 47 bytes
      Datagram("KINT", 2, 3, 2, 48, 8, 4, 5) }     \* unknown version

RecvSkelFamily ==
    { Datagram("SKEL", 1, 0, 1, 28, 3, 4, 5),      \* body 0, one joint
      Datagram("SKEL", 1, 255, 2, 40, 6, 7, 5),    \* body 255, two joints
      Datagram("SKEL", 1, 1, 33, 412, 99, 4, 5),   \* 33 joints
      Datagram("SKEL", 1, 2, 255, 412, 99, 4, 5),  \* body 2, 255 joints
      Datagram("SKEL", 1, 1, 33, 399, 99, 4, 5),   \* 33 joints cut to 399 bytes
      Datagram("SKEL", 1, 0, 1, 27, 3, 4, 5),      \* one joint cut to 27 bytes
      Datagram("SKEL", 2, 0, 1, 28, 3, 4, 5) }     \* unknown version

\* any datagram can arrive on any socket
RecvDatagrams == {NoDatagram} \cup RecvNervFamily \cup RecvKintFamily \cup RecvSkelFamily

\* steady_clock::now() in microseconds
Now == clock

\* nerve::UDPListener::run, the code from recvfrom to faceBuffer->write
HandleNerv(buf, pkt) ==
    IF pkt.len <= 0 THEN buf
    ELSE LET r == ParsePacket(pkt)
             stamped == IF r.out.timestamp = 0
                        THEN [r.out EXCEPT !.timestamp = Now] ELSE r.out
         IN  IF r.ok THEN BufWrite(buf, stamped) ELSE buf

\* a loop that publishes whatever the parser returned
HandleKintAlways(buf, pkt) ==
    IF pkt.len <= 0 THEN buf
    ELSE BufWrite(buf, ParseKintPacket(pkt).out)

\* DepthUDPListener::runDepth, the code from recvfrom to depthBuf->write
HandleKint(buf, pkt) ==
    IF pkt.len <= 0 THEN buf
    ELSE LET r == ParseKintPacket(pkt)
             stamped == IF r.out.timestamp = 0
                        THEN [r.out EXCEPT !.timestamp = Now] ELSE r.out
         IN  IF r.ok THEN BufWrite(buf, stamped) ELSE buf

\* int idx = std::min<int>(body.bodyIndex, MAX_SKEL_BODIES - 1)
SkelSlot(body) == Min(body.bodyIndex, MAX_SKEL_BODIES - 1)

\* DepthUDPListener::runSkel, the merge into the skeleton buffer
SkelMerge(cur, body) ==
    LET idx == SkelSlot(body)
    IN  [cur EXCEPT !.bodies[idx] = body,
                    !.bodyCount = Max(cur.bodyCount, idx + 1),
                    !.timestamp = Now]

\* DepthUDPListener::runSkel, the code from recvfrom to skelBuf->write
HandleSkel(buf, pkt) ==
    IF pkt.len <= 0 THEN buf
    ELSE LET r == ParseSkelPacket(pkt)
             cur == buf.buffers[ReadIndex(buf)]
         IN  IF r.ok THEN BufWrite(buf, SkelMerge(cur, r.out)) ELSE buf

\* history of a pass: the loop, the datagram, whether it was decoded, the
\* joints decoded, and the datagrams (n > 0) not decoded so far
Rx(loop, pkt, ok, jc) ==
    [loop |-> loop, pkt |-> pkt, ok |-> ok, jc |-> jc,
     bad |-> lastRx.bad + (IF pkt.len > 0 /\ ~ok THEN 1 ELSE 0)]


\* one pass of the while loop of nerve::UDPListener::run
RecvNerv ==
    /\ nDatagrams < MaxDatagrams
    /\ \E pkt \in RecvDatagrams :
         /\ faceBuf' = HandleNerv(faceBuf, pkt)
         /\ lastRx' = Rx("nerve", pkt, pkt.len > 0 /\ ParsePacket(pkt).ok, 0)
    /\ nDatagrams' = nDatagrams + 1
    /\ clock' = clock + 1
    /\ UNCHANGED <<depthBuf, skelBuf, lastBodyCount>>
    /\ RecvFrame

\* one pass of the while loop of DepthUDPListener::runDepth
RecvDepth ==
    /\ nDatagrams < MaxDatagrams
    /\ \E pkt \in RecvDatagrams :
         /\ depthBuf' = HandleKint(depthBuf, pkt)
         /\ lastBodyCount' = IF pkt.len > 0 /\ ParseKintPacket(pkt).ok
                             THEN ParseKintPacket(pkt).out.bodyCount
                             ELSE lastBodyCount
         /\ lastRx' = Rx("depth", pkt, pkt.len > 0 /\ ParseKintPacket(pkt).ok, 0)
    /\ nDatagrams' = nDatagrams + 1
    /\ clock' = clock + 1
    /\ UNCHANGED <<faceBuf, skelBuf>>
    /\ RecvFrame

\* one pass of the while loop of DepthUDPListener::runSkel
RecvSkel ==
    /\ nDatagrams < MaxDatagrams
    /\ \E pkt \in RecvDatagrams :
         /\ skelBuf' = HandleSkel(skelBuf, pkt)
         /\ lastRx' = Rx("skel", pkt, pkt.len > 0 /\ ParseSkelPacket(pkt).ok,
                         ParseSkelPacket(pkt).jc)
    /\ nDatagrams' = nDatagrams + 1
    /\ clock' = clock + 1
    /\ UNCHANGED <<faceBuf, depthBuf, lastBodyCount>>
    /\ RecvFrame

----------------------------------------------------------------------------
(* SpecLsn: nerve::UDPListener, the threads it creates and the two threads *)
(* that call its start() and stop(): the audio thread (Nerve::onAdd, then  *)
(* the periodic check at the head of Nerve::process) and the UI thread     *)
(* (the port field of the context menu, the camera button).  start() and   *)
(* stop() are interleaved statement by statement.                          *)

\* number of threads start() creates
MaxThreads == 2
\* number of snapshots the receive loops publish
MaxPublishes == 2

\* int udpPort = 9000
DefaultUdpPort == 9000

\* the ports typed into the port field
Ports == {DefaultUdpPort, DefaultUdpPort + 1}

Controllers == {"audio", "ui"}

\* a controlling thread outside start() and stop()
Idle == [pc |-> "idle", port |-> 0, next |-> "idle", joining |-> 0]

\* a controlling thread entering start(port)
CallStart(port) == [pc |-> "start_load", port |-> port, next |-> "idle", joining |-> 0]

\* a controlling thread entering stop(); next is what its caller does after
CallStop(next, port) == [pc |-> "stop_flag", port |-> port, next |-> next, joining |-> 0]

\* the process is alive: std::terminate has not been reached
Alive == crashed = "no"

\* the datagrams the socket of the listener delivers: a timeout, a valid
\* version-1 datagram, a datagram with the wrong magic tag
LsnDatagrams ==
    { NoDatagram,
      Datagram("NERV", 1, 1, 0, 84, 17, 4, 5),
      Datagram("NERW", 1, 1, 0, 84, 17, 4, 5) }

\* a thread as std::thread(&UDPListener::run, this) creates it
NewThread == [pc |-> "socket", why |-> "", port |-> 0]

ThreadIds == 1..Len(threads)

\* Nerve::onAdd
OnAdd ==
    /\ Alive
    /\ ctl["audio"].pc = "onAdd"
    /\ IF camEnabled
       THEN /\ ctl' = [ctl EXCEPT !["audio"] = CallStart(udpPort)]
            /\ quiet' = FALSE
       ELSE /\ ctl' = [ctl EXCEPT !["audio"] = Idle]
            /\ UNCHANGED quiet
    /\ UNCHANGED <<lsn, threads, camEnabled, udpPort, crashed, faceBuf>>
    /\ LsnFrame

\* Nerve::process, the periodic check: start if enabled and not running
ThreadCheckStart ==
    /\ Alive
    /\ ctl["audio"].pc = "idle"
    /\ camEnabled /\ ~lsn.running
    /\ ctl' = [ctl EXCEPT !["audio"] = CallStart(udpPort)]
    /\ quiet' = FALSE
    /\ UNCHANGED <<lsn, threads, camEnabled, udpPort, crashed, faceBuf>>
    /\ LsnFrame

\* Nerve::process, the periodic check: stop if disabled and running
ThreadCheckStop ==
    /\ Alive
    /\ ctl["audio"].pc = "idle"
    /\ ~camEnabled /\ lsn.running
    /\ ctl' = [ctl EXCEPT !["audio"] = CallStop("idle", 0)]
    /\ UNCHANGED <<lsn, threads, camEnabled, udpPort, crashed, quiet, faceBuf>>
    /\ LsnFrame

\* PortField::onSelectKey up to the call of stop()
PortField ==
    /\ Alive
    /\ ctl["ui"].pc = "idle"
    /\ \E port \in Ports :
         /\ udpPort' = port
         /\ ctl' = [ctl EXCEPT !["ui"] =
                      IF lsn.running THEN CallStop("start", port) ELSE Idle]
    /\ UNCHANGED <<lsn, threads, camEnabled, crashed, quiet, faceBuf>>
    /\ LsnFrame

\* PortField::onSelectKey, module->udpListener.start(port) after stop()
PortFieldStart ==
    /\ Alive
    /\ ctl["ui"].pc = "restart"
    /\ ctl' = [ctl EXCEPT !["ui"] = CallStart(ctl["ui"].port)]
    /\ quiet' = FALSE
    /\ UNCHANGED <<lsn, threads, camEnabled, udpPort, crashed, faceBuf>>
    /\ LsnFrame

\* the camera button: params[CAM_PARAM] changes
ToggleCam ==
    /\ Alive
    /\ camEnabled' = ~camEnabled
    /\ UNCHANGED <<lsn, threads, ctl, udpPort, crashed, quiet, faceBuf>>
    /\ LsnFrame

\* a start() that does not test running
StartLoadAlways ==
    /\ Alive
    /\ \E c \in Controllers :
         /\ ctl[c].pc = "start_load"
         /\ ctl' = [ctl EXCEPT ![c].pc = "start_flags"]
    /\ UNCHANGED <<lsn, threads, camEnabled, udpPort, crashed, quiet, faceBuf>>
    /\ LsnFrame

\* start(): if (running.load()) return;
StartLoad ==
    /\ Alive
    /\ \E c \in Controllers :
         /\ ctl[c].pc = "start_load"
         /\ ctl' = [ctl EXCEPT ![c] =
                      IF lsn.running THEN Idle ELSE [@ EXCEPT !.pc = "start_flags"]]
    /\ UNCHANGED <<lsn, threads, camEnabled, udpPort, crashed, quiet, faceBuf>>
    /\ LsnFrame

\* start(): listenPort = port; shouldStop.store(false);
StartFlags ==
    /\ Alive
    /\ \E c \in Controllers :
         /\ ctl[c].pc = "start_flags"
         /\ lsn' = [lsn EXCEPT !.listenPort = ctl[c].port, !.shouldStop = FALSE]
         /\ ctl' = [ctl EXCEPT ![c].pc = "start_run"]
    /\ UNCHANGED <<threads, camEnabled, udpPort, crashed, quiet, faceBuf>>
    /\ LsnFrame

\* start(): running.store(true);
StartRun ==
    /\ Alive
    /\ \E c \in Controllers :
         /\ ctl[c].pc = "start_run"
         /\ lsn' = [lsn EXCEPT !.running = TRUE]
         /\ ctl' = [ctl EXCEPT ![c].pc = "start_thread"]
    /\ UNCHANGED <<threads, camEnabled, udpPort, crashed, quiet, faceBuf>>
    /\ LsnFrame

\* start(): listenerThread = std::thread(&UDPListener::run, this), the
\* handle not being joinable
StartThread ==
    /\ Alive
    /\ Len(threads) < MaxThreads
    /\ lsn.handle = 0
    /\ \E c \in Controllers :
         /\ ctl[c].pc = "start_thread"
         /\ ctl' = [ctl EXCEPT ![c] = Idle]
    /\ threads' = Append(threads, NewThread)
    /\ lsn' = [lsn EXCEPT !.handle = Len(threads) + 1]
    /\ UNCHANGED <<camEnabled, udpPort, crashed, quiet, faceBuf>>
    /\ LsnFrame

\* start(): listenerThread = std::thread(...) over a joinable handle: the
\* move assignment of std::thread calls std::terminate
StartThreadTerminate ==
    /\ Alive
    /\ lsn.handle # 0
    /\ \E c \in Controllers : ctl[c].pc = "start_thread"
    /\ crashed' = "assign"
    /\ UNCHANGED <<lsn, threads, ctl, camEnabled, udpPort, quiet, faceBuf>>
    /\ LsnFrame

\* stop(): shouldStop.store(true);
StopFlag ==
    /\ Alive
    /\ \E c \in Controllers :
         /\ ctl[c].pc = "stop_flag"
         /\ ctl' = [ctl EXCEPT ![c].pc = "stop_joinable"]
    /\ lsn' = [lsn EXCEPT !.shouldStop = TRUE]
    /\ UNCHANGED <<threads, camEnabled, udpPort, crashed, quiet, faceBuf>>
    /\ LsnFrame

\* stop(): if (listenerThread.joinable())
StopJoinable ==
    /\ Alive
    /\ \E c \in Controllers :
         /\ ctl[c].pc = "stop_joinable"
         /\ ctl' = [ctl EXCEPT ![c] =
                      IF lsn.handle # 0
                      THEN [@ EXCEPT !.pc = "stop_join", !.joining = lsn.handle]
                      ELSE [@ EXCEPT !.pc = "stop_done"]]
    /\ UNCHANGED <<lsn, threads, camEnabled, udpPort, crashed, quiet, faceBuf>>
    /\ LsnFrame

\* stop(): listenerThread.join() returns once the thread has finished
StopJoin ==
    /\ Alive
    /\ \E c \in Controllers :
         /\ ctl[c].pc = "stop_join"
         /\ threads[ctl[c].joining].pc = "done"
         /\ lsn.handle = ctl[c].joining
         /\ ctl' = [ctl EXCEPT ![c].pc = "stop_done"]
    /\ lsn' = [lsn EXCEPT !.handle = 0]
    /\ UNCHANGED <<threads, camEnabled, udpPort, crashed, quiet, faceBuf>>
    /\ LsnFrame

\* stop(): listenerThread.join() on a handle the other controlling thread
\* has joined or assigned meanwhile.  The two calls race on the std::thread
\* object: the join throws (nobody catches: std::terminate), or returns
\* and leaves the handle, or returns and clears the handle.
StopJoinRaced ==
    /\ Alive
    /\ \E c \in Controllers :
         /\ ctl[c].pc = "stop_join"
         /\ threads[ctl[c].joining].pc = "done"
         /\ lsn.handle # ctl[c].joining
         /\ \/ /\ crashed' = "join"
               /\ UNCHANGED <<lsn, ctl>>
            \/ /\ ctl' = [ctl EXCEPT ![c].pc = "stop_done"]
               /\ UNCHANGED <<lsn, crashed>>
            \/ /\ ctl' = [ctl EXCEPT ![c].pc = "stop_done"]
               /\ lsn' = [lsn EXCEPT !.handle = 0]
               /\ UNCHANGED crashed
    /\ UNCHANGED <<threads, camEnabled, udpPort, quiet, faceBuf>>
    /\ LsnFrame

\* stop(): running.store(false); and the return to the caller
StopDone ==
    /\ Alive
    /\ \E c \in Controllers :
         /\ ctl[c].pc = "stop_done"
         /\ ctl' = [ctl EXCEPT ![c] =
                      IF @.next = "start" THEN [@ EXCEPT !.pc = "restart"] ELSE Idle]
    /\ lsn' = [lsn EXCEPT !.running = FALSE]
    /\ quiet' = TRUE
    /\ UNCHANGED <<threads, camEnabled, udpPort, crashed, faceBuf>>
    /\ LsnFrame

\* run(): socket() succeeded
RunSocket ==
    /\ Alive
    /\ \E t \in ThreadIds :
         /\ threads[t].pc = "socket"
         /\ threads' = [threads EXCEPT ![t].pc = "bind"]
    /\ UNCHANGED <<lsn, ctl, camEnabled, udpPort, crashed, quiet, faceBuf>>
    /\ LsnFrame

\* run(): socket() failed: running.store(false); return;
RunSocketFailed ==
    /\ Alive
    /\ \E t \in ThreadIds :
         /\ threads[t].pc = "socket"
         /\ threads' = [threads EXCEPT ![t].pc = "done", ![t].why = "socket"]
    /\ lsn' = [lsn EXCEPT !.running = FALSE]
    /\ UNCHANGED <<ctl, camEnabled, udpPort, crashed, quiet, faceBuf>>
    /\ LsnFrame

\* run(): bind() to listenPort succeeded
RunBind ==
    /\ Alive
    /\ \E t \in ThreadIds :
         /\ threads[t].pc = "bind"
         /\ threads' = [threads EXCEPT ![t].pc = "loop", ![t].port = lsn.listenPort]
    /\ UNCHANGED <<lsn, ctl, camEnabled, udpPort, crashed, quiet, faceBuf>>
    /\ LsnFrame

\* run(): bind() failed: CLOSE_SOCKET(sock); running.store(false); return;
RunBindFailed ==
    /\ Alive
    /\ \E t \in ThreadIds :
         /\ threads[t].pc = "bind"
         /\ threads' = [threads EXCEPT ![t].pc = "done", ![t].why = "bind"]
    /\ lsn' = [lsn EXCEPT !.running = FALSE]
    /\ UNCHANGED <<ctl, camEnabled, udpPort, crashed, quiet, faceBuf>>
    /\ LsnFrame

\* run(): while (!shouldStop.load())
RunLoop ==
    /\ Alive
    /\ \E t \in ThreadIds :
         /\ threads[t].pc = "loop"
         /\ threads' = [threads EXCEPT ![t].pc =
                          IF lsn.shouldStop THEN "exit" ELSE "recv"]
    /\ UNCHANGED <<lsn, ctl, camEnabled, udpPort, crashed, quiet, faceBuf>>
    /\ LsnFrame

\* run(): the body of the loop, from recvfrom to faceBuffer->write
RunRecv ==
    /\ Alive
    /\ \E t \in ThreadIds :
         /\ threads[t].pc = "recv"
         /\ threads' = [threads EXCEPT ![t].pc = "loop"]
    /\ \E pkt \in LsnDatagrams :
         /\ GetVersion(HandleNerv(faceBuf, pkt)) <= MaxPublishes
         /\ faceBuf' = HandleNerv(faceBuf, pkt)
    /\ UNCHANGED <<lsn, ctl, camEnabled, udpPort, crashed, quiet>>
    /\ LsnFrame

\* run(): after the loop: CLOSE_SOCKET(sock); running.store(false);
RunExit ==
    /\ Alive
    /\ \E t \in ThreadIds :
         /\ threads[t].pc = "exit"
         /\ threads' = [threads EXCEPT ![t].pc = "done", ![t].why = "stop"]
    /\ lsn' = [lsn EXCEPT !.running = FALSE]
    /\ UNCHANGED <<ctl, camEnabled, udpPort, crashed, quiet, faceBuf>>
    /\ LsnFrame

InitLsn ==
    /\ lsn = [running |-> FALSE, shouldStop |-> FALSE,
              listenPort |-> DefaultUdpPort, handle |-> 0]
    /\ threads = << >>
    /\ ctl = [c \in Controllers |->
                IF c = "audio" THEN [Idle EXCEPT !.pc = "onAdd"] ELSE Idle]
    /\ camEnabled = TRUE
    /\ udpPort = DefaultUdpPort
    /\ crashed = "no"
    /\ quiet = FALSE

NextLsn ==
    \/ OnAdd
    \/ ThreadCheckStart
    \/ ThreadCheckStop
    \/ PortField
    \/ PortFieldStart
    \/ ToggleCam
    \/ StartLoad
    \/ StartFlags
    \/ StartRun
    \/ StartThread
    \/ StartThreadTerminate
    \/ StopFlag
    \/ StopJoinable
    \/ StopJoin
    \/ StopJoinRaced
    \/ StopDone
    \/ RunSocket
    \/ RunSocketFailed
    \/ RunBind
    \/ RunBindFailed
    \/ RunLoop
    \/ RunRecv
    \/ RunExit

----------------------------------------------------------------------------
(* SpecApi: nerve::UDPListener under one controlling thread that calls     *)
(* start() and stop() in any order, whatever isRunning() says (Nerve::onAdd *)
(* and Nerve::onRemove call them unconditionally).                          *)

\* the controlling thread calls udpListener.start(port)
ApiStart ==
    /\ Alive
    /\ ctl["audio"].pc = "idle"
    /\ \E port \in Ports : ctl' = [ctl EXCEPT !["audio"] = CallStart(port)]
    /\ quiet' = FALSE
    /\ UNCHANGED <<lsn, threads, camEnabled, udpPort, crashed, faceBuf>>
    /\ LsnFrame

\* the controlling thread calls udpListener.stop()
ApiStop ==
    /\ Alive
    /\ ctl["audio"].pc = "idle"
    /\ ctl' = [ctl EXCEPT !["audio"] = CallStop("idle", 0)]
    /\ UNCHANGED <<lsn, threads, camEnabled, udpPort, crashed, quiet, faceBuf>>
    /\ LsnFrame

\* Nerve::dataFromJson: udpPort = json_integer_value(portJ); the listener
\* is not touched.  Rack calls it before onAdd when a patch is opened, and
\* on a module in the rack when a preset is loaded or pasted
NerveDataFromJson ==
    /\ Alive
    /\ ctl["ui"].pc = "idle"
    /\ ctl["audio"].pc \in {"idle", "onAdd"}
    /\ \E port \in Ports : udpPort' = port
    /\ UNCHANGED <<lsn, threads, ctl, camEnabled, crashed, quiet, faceBuf>>
    /\ LsnFrame

\* the port field, with no other call of the listener in progress
PortFieldAlone == ctl["audio"].pc = "idle" /\ PortField

\* SpecPort: the port changes of Nerve, one control operation at a time
NextPort ==
    \/ OnAdd
    \/ NerveDataFromJson
    \/ PortFieldAlone
    \/ PortFieldStart
    \/ StartLoad
    \/ StartFlags
    \/ StartRun
    \/ StartThread
    \/ StopFlag
    \/ StopJoinable
    \/ StopJoin
    \/ StopDone
    \/ RunSocket
    \/ RunSocketFailed
    \/ RunBind
    \/ RunBindFailed
    \/ RunLoop
    \/ RunRecv
    \/ RunExit

NextApi ==
    \/ OnAdd
    \/ ApiStart
    \/ ApiStop
    \/ StartLoad
    \/ StartFlags
    \/ StartRun
    \/ StartThread
    \/ StartThreadTerminate
    \/ StopFlag
    \/ StopJoinable
    \/ StopJoin
    \/ StopDone
    \/ RunSocket
    \/ RunSocketFailed
    \/ RunBind
    \/ RunBindFailed
    \/ RunLoop
    \/ RunRecv
    \/ RunExit

----------------------------------------------------------------------------
(* SpecFace: the face consumer.  Times are in quarters of a second, like   *)
(* the floats: 0.5f s is 2, 999.f s is 999 * 4.                            *)

\* number of calls of process() in a run
MaxTicks == 6

\* args.sampleTime of a call of process()
SampleTimes == {1, 2}

\* the entries of the Face Timeout menu: 0.25f, 0.5f, 1.f, 2.f
MenuTimeouts == {1, 2, 4, 8}

\* nerve::TimeoutTracker: elapsed = 999.f, and the constructor of Nerve
\* calls setTimeoutSeconds(faceTimeoutSec) with faceTimeoutSec = 0.5f
TimeoutTrackerInit == [elapsed |-> 999 * 4, timeoutSeconds |-> 2]

SetTimeoutSeconds(t, seconds) == [t EXCEPT !.timeoutSeconds = seconds]
TimeoutTick(t, sampleTime) == [t EXCEPT !.elapsed = @ + sampleTime]
TimeoutReset(t) == [t EXCEPT !.elapsed = 0]
IsTimedOut(t) == t.elapsed > t.timeoutSeconds

\* x * k for a finite float x
Scale(x, k) == F(x.v * k)

\* targets[] of Nerve::process when faceValid
FaceTargets(face) ==
    [HEAD_X_OUTPUT  |-> Scale(face.headX, 5),
     HEAD_Y_OUTPUT  |-> Scale(face.headY, 5),
     HEAD_Z_OUTPUT  |-> Scale(face.headZ, 5),
     DIST_OUTPUT    |-> Scale(face.headDist, 10),
     L_EYE_OUTPUT   |-> Scale(face.leftEye, 10),
     R_EYE_OUTPUT   |-> Scale(face.rightEye, 10),
     GAZE_X_OUTPUT  |-> Scale(face.gazeX, 5),
     GAZE_Y_OUTPUT  |-> Scale(face.gazeY, 5),
     MOUTH_W_OUTPUT |-> Scale(face.mouthW, 10),
     MOUTH_H_OUTPUT |-> Scale(face.mouthH, 10),
     JAW_OUTPUT     |-> Scale(face.jaw, 10),
     LIPS_OUTPUT    |-> Scale(face.lips, 10),
     BROW_L_OUTPUT  |-> Scale(face.browL, 10),
     BROW_R_OUTPUT  |-> Scale(face.browR, 10),
     BLINK_OUTPUT   |-> FZero,
     EXPR_OUTPUT    |-> Scale(face.expression, 10),
     TONGUE_OUTPUT  |-> Scale(face.tongue, 10),
     BROW_INNER_UP_OUTPUT |-> Scale(face.browInnerUp, 10),
     BROW_DOWN_L_OUTPUT   |-> Scale(face.browDownL, 10),
     BROW_DOWN_R_OUTPUT   |-> Scale(face.browDownR, 10)]

\* targets[] of Nerve::process when not faceValid
NeutralTargets == [o \in DOMAIN FaceTargets(FaceDataDefault) |-> FZero]

\* the valid datagrams the receive loop publishes in SpecFace
FacePublishFamily ==
    { Datagram("NERV", 1, 1, 0, 84, 17, 4, 5),
      Datagram("NERV", 2, 1, 0, 100, 21, 1, 5) }

\* Nerve::process from faceDataBuffer.read() to the targets
FaceTick ==
    /\ nerve.nTicks < MaxTicks
    /\ \E sampleTime \in SampleTimes :
         LET face == faceBuf.buffers[ReadIndex(faceBuf)]
             currentVersion == GetVersion(faceBuf)
             fresh == currentVersion # nerve.lastSeenVersion
             timeout == TimeoutTick(IF fresh THEN TimeoutReset(nerve.timeout)
                                             ELSE nerve.timeout, sampleTime)
             faceValid == face.valid /\ ~IsTimedOut(timeout)
         IN  nerve' = [nerve EXCEPT
                 !.lastSeenVersion = IF fresh THEN currentVersion ELSE @,
                 !.timeout = timeout,
                 !.faceValid = faceValid,
                 !.targets = IF faceValid THEN FaceTargets(face) ELSE NeutralTargets,
                 !.nTicks = @ + 1,
                 !.stale = @ \/ IsTimedOut(timeout)]
    /\ UNCHANGED faceBuf
    /\ FaceFrame

\* Nerve::onReset (the smoothers and lastBlink are outside the model)
FaceOnReset ==
    /\ nerve' = [nerve EXCEPT !.lastSeenVersion = 0]
    /\ UNCHANGED faceBuf
    /\ FaceFrame

\* an entry of the Face Timeout menu; the history of having timed out
\* starts again with the new timeout
FaceSetTimeout ==
    /\ \E t \in MenuTimeouts :
         nerve' = [nerve EXCEPT !.faceTimeoutSec = t,
                                !.timeout = SetTimeoutSeconds(@, t),
                                !.stale = FALSE]
    /\ UNCHANGED faceBuf
    /\ FaceFrame

\* the receive loop publishes a valid datagram
FacePublish ==
    /\ GetVersion(faceBuf) < MaxPublishes
    /\ \E pkt \in FacePublishFamily : faceBuf' = HandleNerv(faceBuf, pkt)
    /\ nerve' = [nerve EXCEPT !.stale = FALSE]
    /\ FaceFrame

InitFace ==
    nerve = [lastSeenVersion |-> 0, timeout |-> TimeoutTrackerInit,
             faceTimeoutSec |-> 2, faceValid |-> FALSE,
             targets |-> NeutralTargets, nTicks |-> 0, stale |-> FALSE]

NextFace ==
    \/ FaceTick
    \/ FaceOnReset
    \/ FaceSetTimeout
    \/ FacePublish

----------------------------------------------------------------------------
(* SpecDepth: the depth consumer *)

\* the CV targets of Depth::process; tCnt is min(bodyCount, 3) * (10.f / 3.f)
DepthTargets(d) ==
    [tDist  |-> Scale(d.cvs.dist, 10),
     tMotn  |-> Scale(d.cvs.motion, 10),
     tArea  |-> Scale(d.cvs.area, 10),
     tDpthL |-> Scale(d.cvs.depthL, 10),
     tDpthR |-> Scale(d.cvs.depthR, 10),
     tEntr  |-> Scale(d.cvs.entropy, 10),
     tGate  |-> IF d.bodyCount > 0 THEN F(40) ELSE FZero,
     tCnt   |-> F((Min(d.bodyCount, 3) * 40) \div 3),
     tCntX  |-> Scale(d.cvs.cntX, 5),
     tCntY  |-> Scale(d.cvs.cntY, 5)]

\* every target at zero
DepthNeutralTargets == [o \in DOMAIN DepthTargets(DepthDataDefault) |-> FZero]

\* the valid datagrams the depth loop publishes in SpecDepth
DepthPublishFamily ==
    { Datagram("KINT", 1, 3, 2, 48, 8, 4, 5),
      Datagram("KINT", 1, 0, 0, 48, 8, 7, 5) }

\* Depth::process from depthBuf.getVersion() to the targets; 1.5f s is 6
DepthTick ==
    /\ depth.nTicks < MaxTicks
    /\ \E sampleTime \in SampleTimes :
         LET version == GetVersion(depthBuf)
             d == depthBuf.buffers[ReadIndex(depthBuf)]
             fresh == version # depth.lastVersion /\ d.valid
             signalAge == IF fresh THEN 0 ELSE depth.signalAge + sampleTime
         IN  depth' = [depth EXCEPT
                 !.lastVersion = IF fresh THEN version ELSE @,
                 !.signalAge = signalAge,
                 !.hasSignal = IF fresh THEN TRUE
                               ELSE IF signalAge > 6 THEN FALSE ELSE @,
                 !.targets = DepthTargets(d),
                 !.nTicks = @ + 1]
    /\ UNCHANGED depthBuf
    /\ DepthFrame

\* the depth loop publishes a valid datagram
DepthPublish ==
    /\ GetVersion(depthBuf) < MaxPublishes
    /\ \E pkt \in DepthPublishFamily : depthBuf' = HandleKint(depthBuf, pkt)
    /\ UNCHANGED depth
    /\ DepthFrame

InitDepth ==
    depth = [lastVersion |-> 0, signalAge |-> 0, hasSignal |-> FALSE,
             targets |-> DepthNeutralTargets, nTicks |-> 0]

NextDepth ==
    \/ DepthTick
    \/ DepthPublish

----------------------------------------------------------------------------
(* skull::GestureTrigger.  Face values, thresholds and the sensitivity are *)
(* in hundredths: 1.f is FullScale.                                        *)

\* 1.f
FullScale == 100

\* number of steps of the grid the inputs and the sensitivity are taken from
GridSteps == 10

\* the grid over [0, 1]
Levels == { (FullScale * i) \div GridSteps : i \in 0..GridSteps }

\* input < threshold * 0.6f
BelowLo(input, threshold) == 10 * input < 6 * threshold

\* input > threshold (hiThresh is the threshold)
AboveHi(input, threshold) == input > threshold

\* a trigger without hysteresis: its low threshold is the high threshold
GestureProcessNoBand(state, input, threshold) ==
    IF ~state /\ AboveHi(input, threshold)
    THEN [state |-> TRUE, ret |-> TRUE]
    ELSE IF state /\ input < threshold
         THEN [state |-> FALSE, ret |-> FALSE]
         ELSE [state |-> state, ret |-> FALSE]

\* GestureTrigger::process: the new state and the returned value
GestureProcess(state, input, threshold) ==
    IF ~state /\ AboveHi(input, threshold)
    THEN [state |-> TRUE, ret |-> TRUE]
    ELSE IF state /\ BelowLo(input, threshold)
         THEN [state |-> FALSE, ret |-> FALSE]
         ELSE [state |-> state, ret |-> FALSE]

\* DrumEngine::process: float thresh = 1.f - sensitivity
DrumThresh(sensitivity) == FullScale - sensitivity

\* DrumEngine::process: thresh * 0.3f, the threshold of crashTrig
CrashThresh(sensitivity) == (3 * DrumThresh(sensitivity)) \div 10

\* the thresholds DrumEngine passes for the sensitivities of the grid
Thresholds ==
    { DrumThresh(s) : s \in Levels } \cup { CrashThresh(s) : s \in Levels }

\* one call of process(input, threshold) on a trigger.  armed is history:
\* no rising edge was returned yet, or an input strictly below the low
\* threshold of its call was seen since the last one
TrigProcess ==
    /\ \E input \in Levels, threshold \in Thresholds :
         LET r == GestureProcess(trig.state, input, threshold)
         IN  trig' = [state |-> r.state, ret |-> r.ret,
                      input |-> input, threshold |-> threshold,
                      armed |-> IF r.ret THEN FALSE
                                ELSE trig.armed \/ BelowLo(input, threshold),
                      called |-> TRUE]
    /\ TrigFrame

InitTrig ==
    trig = [state |-> FALSE, ret |-> FALSE, input |-> 0, threshold |-> 0,
            armed |-> TRUE, called |-> FALSE]

----------------------------------------------------------------------------
(* Voice::process: the gate with hysteresis and the pitch hold.  The       *)
(* sensitivity is in hundredths, the envelope and the gate threshold in    *)
(* 1e-5, the confidence in hundredths, frequencies in Hz, pitch voltages   *)
(* in hundredths of a volt.                                                *)

\* params[SENS_PARAM] of the ticks
SensLevels == {0, 50, 100}

\* float gateThreshold = 0.01f + (1.f - sens) * 0.15f
GateThreshold(sens) == 1000 + (FullScale - sens) * 150

\* envRaw > gateThreshold * 1.2f
AboveOpen(envRaw, gateThreshold) == 10 * envRaw > 12 * gateThreshold

\* envRaw < gateThreshold * 0.8f
BelowClose(envRaw, gateThreshold) == 10 * envRaw < 8 * gateThreshold

\* the gate with hysteresis
GateUpdate(gateHigh, envRaw, gateThreshold) ==
    IF ~gateHigh /\ AboveOpen(envRaw, gateThreshold) THEN TRUE
    ELSE IF gateHigh /\ BelowClose(envRaw, gateThreshold) THEN FALSE
    ELSE gateHigh

\* where the envelope lies with respect to the two levels of the gate
Band(envRaw, gateThreshold) ==
    IF BelowClose(envRaw, gateThreshold) THEN "below"
    ELSE IF AboveOpen(envRaw, gateThreshold) THEN "above" ELSE "within"

\* envelope values at and next to the two levels of a gate threshold
EnvAround(gateThreshold) ==
    { 0, (8 * gateThreshold) \div 10 - 1, (8 * gateThreshold) \div 10, gateThreshold,
      (12 * gateThreshold) \div 10, (12 * gateThreshold) \div 10 + 1 }

\* yin.getConfidence() of the ticks: 0.3f and just above
ConfLevels == {30, 31}

\* yin.getFreq() of the ticks
FreqLevels == {20, 21, 131, 262, 524, 4999, 5000}

\* std::log2(freq / 261.626f), in hundredths of a volt
VOct(freq) ==
    CASE freq = 20 -> -371 [] freq = 21 -> -364 [] freq = 131 -> -100
      [] freq = 262 -> 0 [] freq = 524 -> 100 [] freq = 4999 -> 426
      [] freq = 5000 -> 426 [] OTHER -> 0

\* newPitch && yin.getConfidence() > 0.3f, then freq > 20.f && freq < 5000.f
PitchAccepted(newPitch, confidence, freq) ==
    newPitch /\ confidence > 30 /\ freq > 20 /\ freq < 5000

\* a pitch update that does not look at the gate
PitchGateIgnored(gateHigh) == TRUE

\* ... && gateHigh
PitchGate(gateHigh) == gateHigh

\* what yin.pushSample, getConfidence and getFreq give a tick: no new pass
\* (the confidence and frequency of an older pass, 0 before the first), or a
\* new pass with any confidence and frequency
AnalysisPasses ==
    {[newPitch |-> FALSE, confidence |-> c, freq |-> 262] : c \in {0, 31}}
        \cup {[newPitch |-> TRUE, confidence |-> c, freq |-> f] :
                 c \in ConfLevels, f \in FreqLevels}

\* the ticks of a run of Voice
MaxVoiceTicks == 2

\* smoothCoeff, in quarters
SmoothCoeffs == {2, 4}

\* smoothedPitchV += (currentPitchV - smoothedPitchV) * smoothCoeff
SmoothStep(smoothed, current, coeff) == smoothed + ((current - smoothed) * coeff) \div 4

\* std::abs of a sample
FAbs(x) ==
    IF x.k = "nan" THEN NaN
    ELSE IF x.k = "inf" THEN PInf
    ELSE F(IF x.v < 0 THEN 0 - x.v ELSE x.v)

\* a follower that holds its peak
EnvProcessPeak(envelope, sample, attackCoeff, releaseCoeff) ==
    IF FLess(envelope, FAbs(sample)) THEN FAbs(sample) ELSE envelope

\* EnvelopeFollower::process, the coefficients in quarters and strictly
\* between 0 and 1: coeff * envelope + (1 - coeff) * rectified
EnvProcess(envelope, sample, attackCoeff, releaseCoeff) ==
    LET rectified == FAbs(sample)
        coeff == IF FLess(envelope, rectified) THEN attackCoeff ELSE releaseCoeff
    IN  IF envelope.k = "nan" \/ rectified.k = "nan" THEN NaN
        ELSE IF envelope.k = "inf" \/ rectified.k = "inf" THEN PInf
        ELSE F((coeff * envelope.v + (4 - coeff) * rectified.v) \div 4)

\* envRaw > gateThreshold * 1.2f on a float
EnvAbove(envRaw, gateThreshold) ==
    envRaw = PInf \/ (envRaw.k = "num" /\ AboveOpen(envRaw.v, gateThreshold))

\* envRaw < gateThreshold * 0.8f on a float
EnvBelow(envRaw, gateThreshold) ==
    envRaw = NInf \/ (envRaw.k = "num" /\ BelowClose(envRaw.v, gateThreshold))

\* the gate with hysteresis, on a float: neither comparison holds of a NaN
GateStep(gateHigh, envRaw, gateThreshold) ==
    IF envRaw.k = "num" THEN GateUpdate(gateHigh, envRaw.v, gateThreshold)
    ELSE IF ~gateHigh /\ EnvAbove(envRaw, gateThreshold) THEN TRUE
    ELSE IF gateHigh /\ EnvBelow(envRaw, gateThreshold) THEN FALSE
    ELSE gateHigh

\* currentEnvV = std::min(10.f, envRaw * 20.f), in hundredths of a volt
EnvVolts(envRaw) ==
    IF envRaw.k = "nan" THEN 1000
    ELSE IF envRaw.k = "inf" THEN 1000
    ELSE Min(1000, envRaw.v \div 50)

\* the six outputs at 0 V
ZeroOutputs ==
    [voct |-> 0, gate |-> 0, env |-> 0, onset |-> 0, bright |-> 0, harm |-> 0]

\* the outputs of the onset pulse, the brightness tracker and the harmonic
\* analyser on a tick
OtherLevels == {0, 1000}

\* an early return that also clears the gate and the envelope follower
VoiceBypassResets(v) ==
    [v EXCEPT !.out = ZeroOutputs, !.connected = FALSE, !.band = "none",
              !.analysed = FALSE, !.gateHigh = FALSE, !.envelope = F(0)]

\* the early return of a tick with the audio input not connected
VoiceBypass(v) ==
    [v EXCEPT !.out = ZeroOutputs, !.connected = FALSE, !.band = "none",
              !.analysed = FALSE]

\* a tick with the audio input connected, from the gate to the outputs,
\* on the value envRaw that the envelope follower returned.  armed is
\* history: the gate has not opened yet, or the envelope was strictly below
\* the close level since it last opened
VoiceConnected(v, envRaw, sens, pass, coeff, other) ==
    LET gateThreshold == GateThreshold(sens)
        gateHigh == GateStep(v.gateHigh, envRaw, gateThreshold)
        accepted == PitchAccepted(pass.newPitch, pass.confidence, pass.freq)
        current == IF accepted /\ PitchGate(gateHigh)
                   THEN VOct(pass.freq) ELSE v.currentPitchV
        smoothed == IF gateHigh
                    THEN SmoothStep(v.smoothedPitchV, current, coeff)
                    ELSE v.smoothedPitchV
    IN  [v EXCEPT !.gateHigh = gateHigh,
                  !.currentPitchV = current,
                  !.smoothedPitchV = smoothed,
                  !.envelope = envRaw,
                  !.confidence = pass.confidence,
                  !.connected = TRUE,
                  !.band = IF envRaw.k = "num" THEN Band(envRaw.v, gateThreshold)
                           ELSE "none",
                  !.analysed = accepted,
                  !.armed = IF gateHigh /\ ~v.gateHigh THEN FALSE
                            ELSE v.armed \/ EnvBelow(envRaw, gateThreshold),
                  !.out = [voct |-> smoothed,
                           gate |-> IF gateHigh THEN 1000 ELSE 0,
                           env |-> EnvVolts(envRaw),
                           onset |-> other,
                           bright |-> other,
                           harm |-> IF gateHigh THEN other ELSE 0]]

\* a tick with the audio input not connected
VoiceTickUnconnected ==
    /\ voice.nTicks < MaxVoiceTicks
    /\ voice' = [VoiceBypass(voice) EXCEPT !.nTicks = @ + 1]
    /\ VoiceFrame

\* a tick with the audio input connected, the envelope follower returning
\* any value at or next to the two levels of the gate
VoiceTick ==
    /\ voice.nTicks < MaxVoiceTicks
    /\ \E sens \in SensLevels, pass \in AnalysisPasses, coeff \in SmoothCoeffs,
          other \in OtherLevels :
       \E envRaw \in EnvAround(GateThreshold(sens)) :
         voice' = [VoiceConnected(voice, F(envRaw), sens, pass, coeff, other)
                      EXCEPT !.nTicks = @ + 1]
    /\ VoiceFrame

InitVoice ==
    voice = [gateHigh |-> FALSE, currentPitchV |-> 0, smoothedPitchV |-> 0,
             nTicks |-> 0, connected |-> FALSE, band |-> "none",
             analysed |-> FALSE, armed |-> TRUE, envelope |-> F(0),
             confidence |-> 0, silent |-> FALSE, out |-> ZeroOutputs]

----------------------------------------------------------------------------
(* SpecDsp: the trigger and the Voice tick on arbitrary inputs.  The two   *)
(* objects share no state: a run exercises one of them.                    *)

TrigRun == voice.nTicks = 0 /\ TrigProcess

VoiceRun == ~trig.called /\ VoiceTick

VoiceRunUnconnected == ~trig.called /\ VoiceTickUnconnected

NextDsp ==
    \/ TrigRun
    \/ VoiceRun
    \/ VoiceRunUnconnected

----------------------------------------------------------------------------
(* SpecSweep: one GestureTrigger of DrumEngine, starting disarmed, fed an  *)
(* input that goes from 0 up to 1 and back to 0 in steps of any size.      *)

\* the trigger processes the next input of the sweep
SweepFeed(input, phase) ==
    LET r == GestureProcess(sweep.state, input, DrumThresh(sweep.sensitivity))
    IN  sweep' = [sweep EXCEPT
            !.state = r.state,
            !.input = input,
            !.phase = phase,
            !.rises = @ + (IF r.ret THEN 1 ELSE 0),
            !.falls = @ + (IF sweep.state /\ ~r.state THEN 1 ELSE 0)]

\* the sweep starts at 0
SweepStart ==
    /\ sweep.phase = "start"
    /\ SweepFeed(0, "up")
    /\ SweepFrame

\* the input rises; the sweep turns at 1
SweepUp ==
    /\ sweep.phase = "up"
    /\ \E input \in Levels :
         /\ input > sweep.input
         /\ SweepFeed(input, IF input = FullScale THEN "down" ELSE "up")
    /\ SweepFrame

\* the input falls; the sweep ends at 0
SweepDown ==
    /\ sweep.phase = "down"
    /\ \E input \in Levels :
         /\ input < sweep.input
         /\ SweepFeed(input, IF input = 0 THEN "done" ELSE "down")
    /\ SweepFrame

\* any sensitivity of the grid; GestureTrigger::state = false
InitSweep ==
    sweep \in { [sensitivity |-> s, state |-> FALSE, input |-> 0, phase |-> "start",
                 rises |-> 0, falls |-> 0] : s \in Levels }

\* the trigger of SpecSweep outside its specification
SweepIdle ==
    sweep = [sensitivity |-> 0, state |-> FALSE, input |-> 0, phase |-> "start",
             rises |-> 0, falls |-> 0]

NextSweep ==
    \/ SweepStart
    \/ SweepUp
    \/ SweepDown

----------------------------------------------------------------------------
(* SpecOnset: OnsetDetector as Voice::process drives it: setCooldown with  *)
(* the sample rate of the tick, then pushSample.  The window and the       *)
(* sample rates are scaled down; window energies are in 1e-3, the adaptive *)
(* threshold in 1e-5.                                                      *)

\* int windowSize, scaled down
WindowSize == 2

\* the pushes of a run
MaxPushes == 10

\* args.sampleRate of the ticks, scaled down
SampleRates == {60, 100}

\* setCooldown: cooldownMax = (int)(ms * 0.001f * sampleRate)
SetCooldown(ms, sampleRate) == (ms * sampleRate) \div 1000

\* std::sqrt(energyAcc / windowSize) of the windows
EnergyLevels == {0, 2, 4, 8}

\* adaptiveThreshold * 0.95f + currentEnergy * 0.05f
AdaptStep(adaptiveThreshold, currentEnergy) ==
    (95 * adaptiveThreshold + 5 * 100 * currentEnergy) \div 100

\* prevEnergy > 0.001f, ratio > 1.5f, currentEnergy > adaptiveThreshold * 1.2f
EnergyRise(prevEnergy, currentEnergy, adaptiveThreshold) ==
    /\ prevEnergy > 1
    /\ 2 * currentEnergy > 3 * prevEnergy
    /\ 1000 * currentEnergy > 12 * adaptiveThreshold

\* a detector that does not arm its cooldown
CooldownArmNone(cooldownMax) == 0

\* cooldownSamples = cooldownMax
CooldownArm(cooldownMax) == cooldownMax

\* Voice::process up to onsetDetector.pushSample, and pushSample.  History:
\* ret is the returned value, since the pushes since the last onset (-1:
\* none yet), gap the pushes between this onset and the one before, armMax
\* the cooldownMax the onset before was armed with
OnsetPush ==
    /\ onset.nPushes < MaxPushes
    /\ \E sampleRate \in SampleRates, energy \in EnergyLevels :
         LET cooldownMax == SetCooldown(50, sampleRate)
             sampleCount == onset.sampleCount + 1
             cooldown == IF onset.cooldownSamples > 0
                         THEN onset.cooldownSamples - 1 ELSE onset.cooldownSamples
             window == sampleCount >= WindowSize
             prevEnergy == IF window THEN onset.currentEnergy ELSE onset.prevEnergy
             currentEnergy == IF window THEN energy ELSE onset.currentEnergy
             adaptive == IF window THEN AdaptStep(onset.adaptiveThreshold, energy)
                         ELSE onset.adaptiveThreshold
             ret == /\ window
                    /\ cooldown <= 0
                    /\ EnergyRise(prevEnergy, currentEnergy, adaptive)
         IN  onset' = [prevEnergy |-> prevEnergy,
                       currentEnergy |-> currentEnergy,
                       adaptiveThreshold |-> adaptive,
                       sampleCount |-> IF window THEN 0 ELSE sampleCount,
                       cooldownSamples |-> IF ret THEN CooldownArm(cooldownMax) ELSE cooldown,
                       cooldownMax |-> cooldownMax,
                       ret |-> ret,
                       since |-> IF ret THEN 0
                                 ELSE IF onset.since < 0 THEN -1 ELSE onset.since + 1,
                       gap |-> IF ret /\ onset.since >= 0 THEN onset.since + 1 ELSE -1,
                       armMax |-> IF ret THEN cooldownMax ELSE onset.armMax,
                       prevArmMax |-> IF ret THEN onset.armMax ELSE onset.prevArmMax,
                       nPushes |-> onset.nPushes + 1]
    /\ OnsetFrame

\* the detector after construction: cooldownMax = 2205 until the first tick
\* sets it, scaled down like the sample rates
InitOnset ==
    onset = [prevEnergy |-> 0, currentEnergy |-> 0, adaptiveThreshold |-> 0,
             sampleCount |-> 0, cooldownSamples |-> 0,
             cooldownMax |-> SetCooldown(50, 60),
             ret |-> FALSE, since |-> -1, gap |-> -1, armMax |-> 0, prevArmMax |-> 0,
             nPushes |-> 0]

NextOnset == OnsetPush

----------------------------------------------------------------------------

(* SpecYin: YINDetector fed by the audio thread while the quality preset  *)
(* is changed from the UI thread.  The fields are plain ints without a     *)
(* lock: each load and store of a shared field is a step.  Window sizes    *)
(* are scaled down: HopUnit samples stand for 256.                         *)

\* the samples that stand for 256 samples of the source
HopUnit == 2

\* enum QualityMode { LIGHT, BALANCED, PREMIUM }
LIGHT == 0

BALANCED == 1

PREMIUM == 2

QualityModes == {LIGHT, BALANCED, PREMIUM}

\* static constexpr int MAX_BUFFER = 2048
MAX_BUFFER == 8 * HopUnit

\* the argument applyQualityMode passes to setBufferSize
PresetSize(mode) ==
    CASE mode = LIGHT -> 2 * HopUnit
      [] mode = BALANCED -> 4 * HopUnit
      [] mode = PREMIUM -> 8 * HopUnit

\* json_integer_value of the "qualityMode" member of a patch
JsonIntegers == {-1, 0, 1, 2, 3}

\* a comparison that lets one sample more pass
HopReachedLate(sampleCount, hopSize) == sampleCount > hopSize

\* sampleCount >= hopSize
HopReached(sampleCount, hopSize) == sampleCount >= hopSize

\* the store of qualityMode and the switch of applyQualityMode: a preset
\* goes on to setBufferSize, any other value falls through the switch
SelectMode(mode) ==
    [yin EXCEPT
        !.qualityMode = mode,
        !.ui = IF mode \in QualityModes THEN "bufferSize" ELSE "idle",
        !.size = IF mode \in QualityModes THEN PresetSize(mode) ELSE @,
        !.steady = FALSE]

\* the context menu: a quality mode item is clicked
MenuQuality ==
    /\ yin.ui = "idle"
    /\ \E mode \in QualityModes : yin' = SelectMode(mode)
    /\ YinFrame

\* Voice::dataFromJson with any integer
VoiceDataFromJson ==
    /\ yin.ui = "idle"
    /\ \E mode \in JsonIntegers : yin' = SelectMode(mode)
    /\ YinFrame

\* setBufferSize: bufferSize = std::min(size, MAX_BUFFER)
SetBufferSizeStore ==
    /\ yin.ui = "bufferSize"
    /\ yin' = [yin EXCEPT !.bufferSize = Min(yin.size, MAX_BUFFER),
                          !.ui = "hopSize", !.steady = FALSE]
    /\ YinFrame

\* setBufferSize: hopSize = bufferSize / 2
SetHopSizeStore ==
    /\ yin.ui = "hopSize"
    /\ yin' = [yin EXCEPT !.hopSize = yin.bufferSize \div 2,
                          !.ui = "idle", !.steady = FALSE]
    /\ YinFrame

\* pushSample: the sample is stored, writePos advances modulo bufferSize,
\* sampleCount++.  obs* are history: the configuration this call has read
PushStore ==
    /\ yin.pc = "idle"
    /\ yin' = [yin EXCEPT
           !.writePos = (@ + 1) % yin.bufferSize,
           !.sampleCount = @ + 1,
           !.pc = "compare",
           !.ret = FALSE,
           !.obsBuf = yin.bufferSize,
           !.obsHop = 0, !.obsHalfW = 0, !.obsLoop = 0]
    /\ YinFrame

\* pushSample: the hop is not reached, return false
PushReturnFalse ==
    /\ yin.pc = "compare"
    /\ ~HopReached(yin.sampleCount, yin.hopSize)
    /\ yin' = [yin EXCEPT !.pc = "idle", !.pushed = TRUE, !.ret = FALSE,
                          !.gap = yin.sampleCount,
                          !.obsHop = yin.hopSize,
                          !.wasSteady = yin.steady]
    /\ YinFrame

\* pushSample: the hop is reached, sampleCount = 0 and analyze() is entered.
\* steady is history: no store of the UI thread since the last pass
PushHop ==
    /\ yin.pc = "compare"
    /\ HopReached(yin.sampleCount, yin.hopSize)
    /\ yin' = [yin EXCEPT !.pc = "analyze", !.sampleCount = 0,
                          !.gap = yin.sampleCount,
                          !.obsHop = yin.hopSize,
                          !.wasSteady = yin.steady,
                          !.steady = (yin.ui = "idle")]
    /\ YinFrame

\* analyze: int halfW = bufferSize / 2
AnalyzeHalfW ==
    /\ yin.pc = "analyze"
    /\ yin' = [yin EXCEPT !.pc = "loop", !.obsHalfW = yin.bufferSize \div 2]
    /\ YinFrame

\* analyze: the difference loop reads bufferSize for its indexes; the pass
\* ends and pushSample returns true
AnalyzeLoop ==
    /\ yin.pc = "loop"
    /\ yin' = [yin EXCEPT !.pc = "idle", !.pushed = TRUE, !.ret = TRUE,
                          !.obsLoop = yin.bufferSize]
    /\ YinFrame

\* the detector after the constructor of Voice: BALANCED applied
InitYin ==
    yin = [qualityMode |-> BALANCED,
           bufferSize |-> PresetSize(BALANCED), hopSize |-> PresetSize(BALANCED) \div 2,
           writePos |-> 0, sampleCount |-> 0,
           ui |-> "idle", size |-> PresetSize(BALANCED),
           pc |-> "idle", ret |-> FALSE, pushed |-> FALSE, gap |-> 0,
           steady |-> TRUE, wasSteady |-> TRUE,
           obsBuf |-> 0, obsHop |-> 0, obsHalfW |-> 0, obsLoop |-> 0]

NextYin ==
    \/ MenuQuality
    \/ VoiceDataFromJson
    \/ SetBufferSizeStore
    \/ SetHopSizeStore
    \/ PushStore
    \/ PushReturnFalse
    \/ PushHop
    \/ AnalyzeHalfW
    \/ AnalyzeLoop

----------------------------------------------------------------------------
(* SpecFps: the while loop of nerve::UDPListener::run (runDepth alike) of  *)
(* a running listener, with its rate counter.  Times are in tenths of a    *)
(* second: the receive timeout of 100 ms is 1.  The rate is in hundredths  *)
(* of a packet per second.  A datagram arrives as late as the timeout      *)
(* allows, so every pass takes the same time.                              *)

\* elapsed >= 1.f
FpsWindow == 10

\* tv.tv_usec = 100000, the receive timeout
RecvTimeout == 1

\* the time the loop is followed for
MaxFpsTime == 32

\* frameCount / elapsed
RateOf(frameCount, elapsed) == (1000 * frameCount) \div elapsed

\* the rate update at the end of a pass
FpsUpdate(f, frameCount, now) ==
    IF now - f.fpsTimer >= FpsWindow
    THEN [f EXCEPT !.currentFPS = RateOf(frameCount, now - f.fpsTimer),
                   !.frameCount = 0, !.fpsTimer = now, !.now = now]
    ELSE [f EXCEPT !.frameCount = frameCount, !.now = now]

\* recvfrom timed out: if (n <= 0) continue
FpsTimeout(f, now) == [f EXCEPT !.now = now]

\* a pass in which recvfrom returns n <= 0 after the timeout
FpsPassTimeout ==
    /\ fps.now + RecvTimeout <= MaxFpsTime
    /\ fps' = FpsTimeout(fps, fps.now + RecvTimeout)
    /\ FpsFrame

\* a pass with a datagram the parser rejects
FpsPassRejected ==
    /\ fps.now + RecvTimeout <= MaxFpsTime
    /\ fps' = FpsUpdate(fps, fps.frameCount, fps.now + RecvTimeout)
    /\ FpsFrame

\* a pass with a datagram that is decoded and published: frameCount++.
\* lastPublish is history: the time of the last publication
FpsPassPublished ==
    /\ fps.now + RecvTimeout <= MaxFpsTime
    /\ fps' = [FpsUpdate(fps, fps.frameCount + 1, fps.now + RecvTimeout)
                  EXCEPT !.published = TRUE, !.lastPublish = fps.now + RecvTimeout]
    /\ FpsFrame

\* currentFPS{0.f}, frameCount = 0, fpsTimer = now
InitFps ==
    fps = [currentFPS |-> 0, frameCount |-> 0, fpsTimer |-> 0, now |-> 0,
           published |-> FALSE, lastPublish |-> 0]

NextFps ==
    \/ FpsPassTimeout
    \/ FpsPassRejected
    \/ FpsPassPublished

----------------------------------------------------------------------------
(* SpecSlew: the smoothing time of Nerve::process and SlewSmoother.  Times *)
(* are floats in microseconds, voltages are in hundredths of a volt.       *)

\* x + y on floats
FAdd(x, y) ==
    IF x.k = "nan" \/ y.k = "nan" THEN NaN
    ELSE IF x.k = "inf" /\ y.k = "inf" THEN (IF x.v = y.v THEN x ELSE NaN)
    ELSE IF x.k = "inf" THEN x
    ELSE IF y.k = "inf" THEN y
    ELSE F(x.v + y.v)

\* params[SMOOTH_PARAM], a knob from 0 to 1
SmoothParams == {F(0), F(999), F(1000), F(150000), F(1000000)}

\* inputs[SMOOTH_INPUT].getVoltage() / 10.f, or 0.f if not connected: any
\* float a cable can carry
SmoothCVs == {F(0), F(1), F(-1), F(-5000000), F(1200000), PInf, NInf, NaN}

\* args.sampleTime at 48 kHz and 44.1 kHz
SlewSampleTimes == {21, 23}

\* targets[i], from 0 V to 10 V
SlewTargets == {0, 500, 1000}

\* the ticks of a run
MaxSlewTicks == 2

\* a smoothing time that is not clamped
SmoothTimeUnclamped(smoothParam, smoothCV) == FAdd(smoothParam, smoothCV)

\* math::clamp(smoothParam + smoothCV, 0.f, 2.f)
SmoothTime(smoothParam, smoothCV) ==
    Clamp(FAdd(smoothParam, smoothCV), F(0), F(2000000))

\* smoothTime < 0.001f
SlewPasses(smoothTime) == FLess(smoothTime, F(1000))

\* twice the divisor smoothTime * 0.5f + sampleTime, for a finite time
SlewDivisor2(smoothTime, sampleTime) == smoothTime.v + 2 * sampleTime

\* SlewSmoother::process divides by a non-zero finite number, or does not
\* divide
SlewDefined(smoothTime, sampleTime) ==
    \/ SlewPasses(smoothTime)
    \/ smoothTime.k = "num" /\ SlewDivisor2(smoothTime, sampleTime) # 0

\* SlewSmoother::process: the new value (the old one where the division is
\* not defined)
SlewProcess(value, target, smoothTime, sampleTime) ==
    IF SlewPasses(smoothTime) THEN target
    ELSE IF ~SlewDefined(smoothTime, sampleTime) THEN value
    ELSE value + (2 * sampleTime * (target - value))
                     \div SlewDivisor2(smoothTime, sampleTime)

\* Nerve::process from the smoothing knob to a smoother's process()
SlewTick ==
    /\ slew.nTicks < MaxSlewTicks
    /\ slew.defined
    /\ \E smoothParam \in SmoothParams, smoothCV \in SmoothCVs,
          sampleTime \in SlewSampleTimes, target \in SlewTargets :
         LET smoothTime == SmoothTime(smoothParam, smoothCV)
         IN  slew' = [value |-> SlewProcess(slew.value, target, smoothTime, sampleTime),
                      target |-> target,
                      smoothTime |-> smoothTime,
                      smoothCV |-> smoothCV,
                      sampleTime |-> sampleTime,
                      defined |-> SlewDefined(smoothTime, sampleTime),
                      nTicks |-> slew.nTicks + 1]
    /\ SlewFrame

\* SlewSmoother::value = 0.f
InitSlew ==
    slew = [value |-> 0, target |-> 0, smoothTime |-> F(0), smoothCV |-> F(0),
            sampleTime |-> 21, defined |-> TRUE, nTicks |-> 0]

NextSlew == SlewTick

----------------------------------------------------------------------------
(* SpecSilence: Voice::process with the envelope follower computed, the    *)
(* audio input connected.  A run feeds a few samples of any kind and then  *)
(* zeros for ever.  Samples and the envelope are in units of 0.00001.      *)

\* audio = inputs[AUDIO_INPUT].getVoltage() / 5.f of a tick before the
\* silence: a loud sample, a NaN and an infinity
AudioLevels == {F(40000), NaN, PInf}

\* attackCoeff and releaseCoeff that setCoeffs computes, exp(-1 / n) for a
\* positive n: strictly between 0 and 1, here in quarters
EnvCoeffs == {1, 2}

\* the analysis passes of a tick of this specification: none, or one that
\* is accepted
SilencePasses ==
    { [newPitch |-> FALSE, confidence |-> 31, freq |-> 262],
      [newPitch |-> TRUE, confidence |-> 31, freq |-> 524] }

\* a tick before the silence
AudioTick ==
    /\ ~voice.silent
    /\ voice.nTicks < MaxVoiceTicks
    /\ \E sample \in AudioLevels, attackCoeff \in EnvCoeffs, releaseCoeff \in EnvCoeffs,
          sens \in SensLevels, pass \in SilencePasses, coeff \in SmoothCoeffs :
         LET envRaw == EnvProcess(voice.envelope, sample, attackCoeff, releaseCoeff)
         IN  voice' = [VoiceConnected(voice, envRaw, sens, pass, coeff, 0)
                          EXCEPT !.nTicks = @ + 1]
    /\ VoiceFrame

\* a tick of the silence: the sample is 0
SilentTick ==
    /\ \E attackCoeff \in EnvCoeffs, releaseCoeff \in EnvCoeffs,
          sens \in SensLevels, pass \in SilencePasses, coeff \in SmoothCoeffs :
         LET envRaw == EnvProcess(voice.envelope, F(0), attackCoeff, releaseCoeff)
         IN  voice' = [VoiceConnected(voice, envRaw, sens, pass, coeff, 0)
                          EXCEPT !.silent = TRUE]
    /\ VoiceFrame

NextSilence ==
    \/ AudioTick
    \/ SilentTick

----------------------------------------------------------------------------
(* SpecLag: steps 3 and 4 of YINDetector::analyze on any normalized        *)
(* difference curve cmnd[1 .. halfW - 1], in hundredths; cmnd[0] is 1.     *)
(* The window is scaled down.                                              *)

\* halfW = bufferSize / 2, scaled down
LagHalfW == 6

\* the values of the curve: around the threshold 0.15 and the limit 0.5
CmndLevels == {10, 14, 15, 50, 51, 100}

\* sampleRate of the pass: maxLag cut by the rate, minLag 2, minLag 3, and a
\* rate whose minLag lies beyond the window
LagSampleRates == {120, 8000, 15000, 44100}

\* float threshold = 0.15f
DipThreshold == 15

\* if (minVal > 0.5f)
AcceptLimit == 50

\* int minLag = std::max(2, (int)(sampleRate / 5000.f))
MinLag(sampleRate) == Max(2, sampleRate \div 5000)

\* int maxLag = std::min(halfW - 1, (int)(sampleRate / 30.f))
MaxLag(halfW, sampleRate) == Min(halfW - 1, sampleRate \div 30)

\* while (tau + 1 < maxLag && cmnd[tau + 1] < cmnd[tau]) tau++
RECURSIVE Descend(_, _, _)
Descend(cmnd, tau, maxLag) ==
    IF tau + 1 < maxLag /\ cmnd[tau + 1] < cmnd[tau]
    THEN Descend(cmnd, tau + 1, maxLag) ELSE tau

\* a search that takes the first lag below the threshold as it is
DipScanNoDescent(cmnd, tau, maxLag) ==
    LET below == {t \in tau..(maxLag - 1) : cmnd[t] < DipThreshold}
    IN  IF below = {} THEN -1 ELSE CHOOSE t \in below : \A u \in below : t <= u

\* step 3, from tau on: the first dip below the threshold, or -1
RECURSIVE DipScan(_, _, _)
DipScan(cmnd, tau, maxLag) ==
    IF tau >= maxLag THEN -1
    ELSE IF cmnd[tau] < DipThreshold THEN Descend(cmnd, tau, maxLag)
    ELSE DipScan(cmnd, tau + 1, maxLag)

\* the fallback loop from tau on: minVal and bestTau
RECURSIVE GlobalMin(_, _, _, _, _)
GlobalMin(cmnd, tau, maxLag, minVal, bestTau) ==
    IF tau >= maxLag THEN [minVal |-> minVal, bestTau |-> bestTau]
    ELSE IF cmnd[tau] < minVal
         THEN GlobalMin(cmnd, tau + 1, maxLag, cmnd[tau], tau)
         ELSE GlobalMin(cmnd, tau + 1, maxLag, minVal, bestTau)

\* step 4: detectedFreq = sampleRate / tauEstimate as a fraction, with
\* tauEstimate = bestTau + (s0 - s2) / denom when std::abs(denom) > 1e-6f
FreqOf(cmnd, bestTau, halfW, sampleRate) ==
    LET s0 == IF bestTau = 1 THEN 100 ELSE cmnd[bestTau - 1]
        s1 == cmnd[bestTau]
        s2 == cmnd[bestTau + 1]
        denom == 2 * (2 * s1 - s0 - s2)
    IN  IF bestTau > 0 /\ bestTau < halfW - 1 /\ denom # 0
        THEN [num |-> sampleRate * denom, den |-> bestTau * denom + (s0 - s2)]
        ELSE [num |-> sampleRate, den |-> bestTau]

\* a rejection that also forgets the frequency
LagRejectClears(l) ==
    [l EXCEPT !.confidence = 0, !.detectedFreq = [num |-> 0, den |-> 1]]

\* confidence = 0.f; return;
LagReject(l) == [l EXCEPT !.confidence = 0]

\* analyze from step 3 on.  History: bestTau, fallback (the fallback loop
\* ran) and accepted
Analyze(l) ==
    LET minLag == MinLag(l.sampleRate)
        maxLag == MaxLag(l.halfW, l.sampleRate)
        dip == DipScan(l.cmnd, minLag, maxLag)
        fb == GlobalMin(l.cmnd, minLag, maxLag, 100, -1)
        bestTau == IF dip < 0 THEN fb.bestTau ELSE dip
        seen == [l EXCEPT !.bestTau = bestTau, !.fallback = dip < 0, !.done = TRUE]
    IN  IF dip < 0 /\ fb.minVal > AcceptLimit THEN LagReject(seen)
        ELSE IF bestTau < minLag THEN LagReject(seen)
        ELSE [seen EXCEPT
                !.accepted = TRUE,
                !.detectedFreq = FreqOf(l.cmnd, bestTau, l.halfW, l.sampleRate),
                !.confidence = Max(0, Min(100, 100 - l.cmnd[bestTau]))]

\* one analysis pass
LagAnalyze ==
    /\ ~lag.done
    /\ lag' = Analyze(lag)
    /\ LagFrame

\* the detector before a pass on the curve c
LagState(c, sr, f, k) ==
    [cmnd |-> c, halfW |-> LagHalfW, sampleRate |-> sr,
     detectedFreq |-> f, confidence |-> k,
     before |-> f, bestTau |-> -1, fallback |-> FALSE,
     accepted |-> FALSE, done |-> FALSE]

\* any curve, any rate, the frequency and confidence of the pass before (0
\* after construction)
InitLag ==
    lag \in { LagState(c, sr, f, k) :
                c \in [1..(LagHalfW - 1) -> CmndLevels], sr \in LagSampleRates,
                f \in {[num |-> 0, den |-> 1], [num |-> 440, den |-> 1]},
                k \in {0, 90} }

\* no pass is modelled
LagIdle ==
    lag = LagState([t \in 1..(LagHalfW - 1) |-> 100], 44100, [num |-> 0, den |-> 1], 0)

NextLag == LagAnalyze

----------------------------------------------------------------------------
(* SpecDLsn: depth::DepthUDPListener as Depth drives it: start() in the    *)
(* constructor, then stop(); start() whenever a port is changed.  One      *)
(* thread controls the listener, so start() always finds both handles not  *)
(* joinable.  A thread is "none" (not created or joined), "open" (before   *)
(* openUDP), "loop" or "done" (returned, not joined yet).                  *)

\* number of port changes
MaxRestarts == 1

\* the datagrams the depth socket delivers: a timeout and a KINT datagram
DLsnKint == {NoDatagram, Datagram("KINT", 1, 3, 2, 48, 8, 4, 5)}

\* the datagrams the skeleton socket delivers: a timeout and a SKEL datagram
DLsnSkel == {NoDatagram, Datagram("SKEL", 1, 0, 1, 28, 3, 4, 5)}

\* a thread that can still write to its channel
LoopActive(t) == t \in {"open", "loop"}

\* start(): the test of running, the flags, the two threads
DStart ==
    /\ dlsn.pc \in {"start", "restart"}
    /\ dlsn' = IF dlsn.running THEN [dlsn EXCEPT !.pc = "idle"]
               ELSE [dlsn EXCEPT !.pc = "idle", !.shouldStop = FALSE,
                                 !.running = TRUE,
                                 !.depthThread = "open", !.skelThread = "open"]
    /\ UNCHANGED <<depthBuf, skelBuf, lastBodyCount>>
    /\ DLsnFrame

\* a port is changed: stop() begins with shouldStop.store(true)
DStopFlag ==
    /\ dlsn.pc = "idle"
    /\ dlsn.nRestarts < MaxRestarts
    /\ dlsn' = [dlsn EXCEPT !.pc = "stop_depth", !.shouldStop = TRUE,
                            !.nRestarts = @ + 1]
    /\ UNCHANGED <<depthBuf, skelBuf, lastBodyCount>>
    /\ DLsnFrame

\* stop(): if (depthThread.joinable()) depthThread.join();
DStopJoinDepth ==
    /\ dlsn.pc = "stop_depth"
    /\ dlsn.depthThread \in {"none", "done"}
    /\ dlsn' = [dlsn EXCEPT !.pc = "stop_skel", !.depthThread = "none"]
    /\ UNCHANGED <<depthBuf, skelBuf, lastBodyCount>>
    /\ DLsnFrame

\* stop(): if (skelThread.joinable()) skelThread.join();
DStopJoinSkel ==
    /\ dlsn.pc = "stop_skel"
    /\ dlsn.skelThread \in {"none", "done"}
    /\ dlsn' = [dlsn EXCEPT !.pc = "stop_done", !.skelThread = "none"]
    /\ UNCHANGED <<depthBuf, skelBuf, lastBodyCount>>
    /\ DLsnFrame

\* stop(): running.store(false); the caller goes on to start()
DStopDone ==
    /\ dlsn.pc = "stop_done"
    /\ dlsn' = [dlsn EXCEPT !.pc = "restart", !.running = FALSE]
    /\ UNCHANGED <<depthBuf, skelBuf, lastBodyCount>>
    /\ DLsnFrame

\* runDepth: openUDP succeeded
DepthOpen ==
    /\ dlsn.depthThread = "open"
    /\ dlsn' = [dlsn EXCEPT !.depthThread = "loop"]
    /\ UNCHANGED <<depthBuf, skelBuf, lastBodyCount>>
    /\ DLsnFrame

\* runDepth: if (s == SOCKET_ERROR_VAL) { running.store(false); return; }
DepthOpenFailed ==
    /\ dlsn.depthThread = "open"
    /\ dlsn' = [dlsn EXCEPT !.depthThread = "done", !.running = FALSE]
    /\ UNCHANGED <<depthBuf, skelBuf, lastBodyCount>>
    /\ DLsnFrame

\* runSkel: openUDP succeeded
SkelOpen ==
    /\ dlsn.skelThread = "open"
    /\ dlsn' = [dlsn EXCEPT !.skelThread = "loop"]
    /\ UNCHANGED <<depthBuf, skelBuf, lastBodyCount>>
    /\ DLsnFrame

\* runSkel: if (s == SOCKET_ERROR_VAL) return;
SkelOpenFailed ==
    /\ dlsn.skelThread = "open"
    /\ dlsn' = [dlsn EXCEPT !.skelThread = "done"]
    /\ UNCHANGED <<depthBuf, skelBuf, lastBodyCount>>
    /\ DLsnFrame

\* runDepth: the test of the while loop and one pass of its body
DepthPass ==
    /\ dlsn.depthThread = "loop"
    /\ IF dlsn.shouldStop
       THEN /\ dlsn' = [dlsn EXCEPT !.depthThread = "done"]
            /\ UNCHANGED <<depthBuf, lastBodyCount>>
       ELSE /\ \E pkt \in DLsnKint :
                 /\ GetVersion(HandleKint(depthBuf, pkt)) <= MaxPublishes
                 /\ depthBuf' = HandleKint(depthBuf, pkt)
                 /\ lastBodyCount' = IF pkt.len > 0 /\ ParseKintPacket(pkt).ok
                                     THEN ParseKintPacket(pkt).out.bodyCount
                                     ELSE lastBodyCount
            /\ UNCHANGED dlsn
    /\ UNCHANGED skelBuf
    /\ DLsnFrame

\* runSkel: the test of the while loop and one pass of its body
SkelPass ==
    /\ dlsn.skelThread = "loop"
    /\ IF dlsn.shouldStop
       THEN /\ dlsn' = [dlsn EXCEPT !.skelThread = "done"]
            /\ UNCHANGED skelBuf
       ELSE /\ \E pkt \in DLsnSkel :
                 /\ GetVersion(HandleSkel(skelBuf, pkt)) <= MaxPublishes
                 /\ skelBuf' = HandleSkel(skelBuf, pkt)
            /\ UNCHANGED dlsn
    /\ UNCHANGED <<depthBuf, lastBodyCount>>
    /\ DLsnFrame

\* the listener of a Depth whose constructor is about to call start()
InitDLsn ==
    dlsn = [running |-> FALSE, shouldStop |-> FALSE,
            depthThread |-> "none", skelThread |-> "none",
            pc |-> "start", nRestarts |-> 0]

NextDLsn ==
    \/ DStart
    \/ DStopFlag
    \/ DStopJoinDepth
    \/ DStopJoinSkel
    \/ DStopDone
    \/ DepthOpen
    \/ DepthOpenFailed
    \/ SkelOpen
    \/ SkelOpenFailed
    \/ DepthPass
    \/ SkelPass

----------------------------------------------------------------------------
(* Initial states and specifications *)

InitBufs ==
    /\ faceBuf = NewBuffer(FaceDataDefault)
    /\ depthBuf = NewBuffer(DepthDataDefault)
    /\ skelBuf = NewBuffer(SkeletonDataDefault)
    /\ lastBodyCount = 0
    /\ clock = 1

InitRecv ==
    /\ nDatagrams = 0
    /\ lastRx = [loop |-> "none", pkt |-> NoDatagram, ok |-> FALSE, jc |-> 0, bad |-> 0]

CodecIdle ==
    decoded = [pkt |-> NoDatagram, by |-> "idle", res |-> NoResult]

\* the state after construction of the sensor modules
InitNet == InitChan /\ InitBufs /\ InitRecv /\ InitLsn /\ InitFace /\ InitDepth /\ InitDLsn

\* the state after construction of the signal-processing objects
InitDsp == InitTrig /\ InitVoice /\ InitOnset /\ InitYin /\ InitFps /\ InitSlew

Init == InitNet /\ CodecIdle /\ InitDsp /\ SweepIdle /\ LagIdle

SpecChan == Init /\ [][NextChan]_vars

NextCodec ==
    \/ DecodeNerv
    \/ DecodeKint
    \/ DecodeSkel

\* the initial states of SpecCodec: a datagram of the family, not yet parsed
InitDecode == InitNet /\ InitCodec /\ InitDsp /\ SweepIdle /\ LagIdle

SpecCodec == InitDecode /\ [][NextCodec]_vars

NextRecv ==
    \/ RecvNerv
    \/ RecvDepth
    \/ RecvSkel

SpecRecv == Init /\ [][NextRecv]_vars

SpecLsn == Init /\ [][NextLsn]_vars

SpecApi == Init /\ [][NextApi]_vars

\* a step of the receive thread t
ThreadStep(t) ==
    /\ \/ RunSocket \/ RunSocketFailed \/ RunBind \/ RunBindFailed
       \/ RunLoop \/ RunRecv \/ RunExit
    /\ t \in DOMAIN threads
    /\ threads'[t] # threads[t]

\* a step of the controlling thread c inside start() or stop()
ControlStep(c) ==
    /\ \/ StartLoad \/ StartFlags \/ StartRun \/ StartThread \/ PortFieldStart
       \/ StopFlag \/ StopJoinable \/ StopJoin \/ StopJoinRaced \/ StopDone
    /\ ctl'[c] # ctl[c]

\* SpecLsn with every thread scheduled fairly and every recvfrom returning
\* (with a datagram or on its timeout)
SpecLsnFair ==
    /\ Init
    /\ [][NextLsn]_vars
    /\ \A t \in 1..MaxThreads : WF_vars(ThreadStep(t))
    /\ \A c \in Controllers : WF_vars(ControlStep(c))

SpecFace == Init /\ [][NextFace]_vars

SpecDepth == Init /\ [][NextDepth]_vars

SpecPort == Init /\ [][NextPort]_vars

SpecDsp == Init /\ [][NextDsp]_vars

SpecOnset == Init /\ [][NextOnset]_vars

SpecYin == Init /\ [][NextYin]_vars

SpecFps == Init /\ [][NextFps]_vars

SpecSlew == Init /\ [][NextSlew]_vars

\* the audio engine calls process on every sample for as long as the module
\* is in the patch
SpecSilence == Init /\ [][NextSilence]_vars /\ WF_vars(SilentTick)

\* the initial states of SpecSweep: a trigger and any sensitivity
InitSweepRun == InitNet /\ CodecIdle /\ InitDsp /\ InitSweep /\ LagIdle

SpecSweep == InitSweepRun /\ [][NextSweep]_vars

SpecDLsn == Init /\ [][NextDLsn]_vars

\* the initial states of SpecLag: any curve, any sample rate
InitLagRun == InitNet /\ CodecIdle /\ InitDsp /\ SweepIdle /\ InitLag

SpecLag == InitLagRun /\ [][NextLag]_vars

----------------------------------------------------------------------------
(* Claims about the parsers and the receive loops *)

\* the length of the layout a declared NERV version names
NervLayoutSize(ver) == IF ver >= 2 THEN NERVE_V2_PACKET_SIZE ELSE NERVE_V1_PACKET_SIZE

\* a datagram that is shorter than the layout of its declared version, or
\* has the wrong magic tag, or declares an unsupported version
Malformed(loop, pkt) ==
    CASE loop = "nerve" -> \/ pkt.magic # "NERV"
                           \/ pkt.ver \notin {1, 2}
                           \/ pkt.len < NervLayoutSize(pkt.ver)
      [] loop = "depth" -> \/ pkt.magic # "KINT"
                           \/ pkt.ver # 1
                           \/ pkt.len < KINT_PACKET_SIZE
      [] loop = "skel"  -> \/ pkt.magic # "SKEL"
                           \/ pkt.ver # 1
                           \/ pkt.len < SKEL_MIN_SIZE + 12 * pkt.b7
      [] OTHER -> FALSE

\* C6: a received datagram that is shorter than the layout required by its
\* declared version, or has the wrong magic tag, or declares a version
\* outside the supported set, is rejected by the parser of the loop that
\* received it, and handling it leaves every channel (slots, active index
\* and version counter) unchanged.
C6_MalformedRejected ==
    [][ (nDatagrams' = nDatagrams + 1 /\ lastRx'.pkt.len > 0
            /\ Malformed(lastRx'.loop, lastRx'.pkt))
        => (~lastRx'.ok /\ faceBuf' = faceBuf /\ depthBuf' = depthBuf
               /\ skelBuf' = skelBuf) ]_vars

\* C7: for every NERV datagram parsePacket accepts, the extended channels
\* and the timestamp are read at the offsets of the layout the version
\* field names: version 2 has tongue at block offset 68 and the timestamp
\* at block offset 84, version 1 has the timestamp at block offset 68 and
\* the extended channels zero.
C7_LayoutFromVersion ==
    (decoded.by = "parsePacket" /\ decoded.res.ok) =>
        LET pkt == decoded.pkt
            out == decoded.res.out
        IN  IF pkt.ver = 2
            THEN /\ out.timestamp = ReadU64(pkt, NERVE_HEADER_SIZE + 84)
                 /\ out.tongue = Clamp(ReadFloat(pkt, NERVE_HEADER_SIZE + 68),
                                       FZero, FOne)
            ELSE /\ out.timestamp = ReadU64(pkt, NERVE_HEADER_SIZE + 68)
                 /\ out.tongue = FZero

InRange(x, lo, hi) == x.k = "num" /\ lo <= x.v /\ x.v <= hi
Bipolar(x) == InRange(x, -4, 4)
Unipolar(x) == InRange(x, 0, 4)

\* C8: for every datagram a parser accepts, head rotation, gaze, depth
\* centroid and skeleton joint coordinates lie in [-1, 1], all other face
\* and depth channels in [0, 1], and blinkL and blinkR are 0 or 1.
C8_DecodedInRange ==
    decoded.res.ok =>
        LET out == decoded.res.out
        IN  CASE decoded.by = "parsePacket" ->
                   /\ \A x \in {out.headX, out.headY, out.headZ, out.gazeX,
                                out.gazeY} : Bipolar(x)
                   /\ \A x \in {out.headDist, out.leftEye, out.rightEye,
                                out.mouthW, out.mouthH, out.jaw, out.lips,
                                out.browL, out.browR, out.expression,
                                out.tongue, out.browInnerUp, out.browDownL,
                                out.browDownR} : Unipolar(x)
                   /\ out.blinkL \in {FZero, FOne}
                   /\ out.blinkR \in {FZero, FOne}
              [] decoded.by = "parseKintPacket" ->
                   /\ Bipolar(out.cvs.cntX) /\ Bipolar(out.cvs.cntY)
                   /\ \A x \in {out.cvs.dist, out.cvs.motion, out.cvs.area,
                                out.cvs.depthL, out.cvs.depthR,
                                out.cvs.entropy} : Unipolar(x)
              [] decoded.by = "parseSkelPacket" ->
                   \A i \in JointIndex :
                       /\ Bipolar(JointAt(out, i).x)
                       /\ Bipolar(JointAt(out, i).y)
                       /\ Bipolar(JointAt(out, i).z)
              [] OTHER -> TRUE

\* an accepted face datagram whose head-X word is a NaN, whose right-eye
\* word is 1.5 and whose left-blink word is 0.75
C8_Witness ==
    /\ decoded.by = "parsePacket"
    /\ decoded.res.ok
    /\ ReadFloat(decoded.pkt, NERVE_HEADER_SIZE + 0) = NaN
    /\ ReadFloat(decoded.pkt, NERVE_HEADER_SIZE + 20) = F(6)
    /\ decoded.res.out.rightEye = FOne
    /\ ReadFloat(decoded.pkt, NERVE_HEADER_SIZE + 56) = F(3)
    /\ decoded.res.out.blinkL = FOne

\* C9: in every skeleton snapshot in the skeleton channel, each valid
\* body's jointCount is at most MAX_SKEL_JOINTS and, for the body just
\* merged, equals the number of joints the parser decoded; and bodyCount is
\* at most MAX_SKEL_BODIES.
C9_SkeletonLengths ==
    /\ \A s \in 0..1 :
         /\ skelBuf.buffers[s].bodyCount <= MAX_SKEL_BODIES
         /\ \A b \in 0..(MAX_SKEL_BODIES - 1) :
              skelBuf.buffers[s].bodies[b].valid =>
                  skelBuf.buffers[s].bodies[b].jointCount <= MAX_SKEL_JOINTS
    /\ (lastRx.loop = "skel" /\ lastRx.ok) =>
         LET snap == skelBuf.buffers[ReadIndex(skelBuf)]
             body == snap.bodies[Min(lastRx.pkt.b6, MAX_SKEL_BODIES - 1)]
         IN  body.valid /\ body.jointCount = lastRx.jc

----------------------------------------------------------------------------
(* Claims about the listener life cycle and the consumers *)

\* C2: once a call to stop() of the listener has returned, no write to the
\* channel the listener owns occurs (version, active index and both slots
\* stay unchanged) until a later start() is called.
C2_NoWriteAfterStop ==
    [][ quiet => faceBuf' = faceBuf ]_vars

\* C3: after the receive thread has exited because socket creation or bind
\* failed, no sequence of isRunning()/start()/stop() calls (the periodic
\* check of Nerve::process included) executes the thread creation of
\* start() while the handle of that thread is still joinable, which would
\* terminate the process.
C3_NoStartOverFailedThread ==
    ~( /\ crashed = "assign"
       /\ lsn.handle # 0
       /\ threads[lsn.handle].why \in {"socket", "bind"} )

\* C4: while no write to the face channel occurs, once the staleness
\* accumulator has exceeded the timeout the target vector of every later
\* tick is the neutral vector and faceValid is false, whatever module
\* operation (onReset included) comes between; this holds before the first
\* packet as well.
C4_StaleStaysNeutral ==
    nerve.stale => (~nerve.faceValid /\ nerve.targets = NeutralTargets)

\* C5: when the depth channel receives no new write, then from the tick at
\* which the consumer's own staleness interval (signalAge above 1.5 s,
\* hasSignal false) has passed, the targets of all CV outputs are zero.
C5_DepthTargetsDecay ==
    (depth.nTicks > 0 /\ ~depth.hasSignal) => depth.targets = DepthNeutralTargets

\* the receive loops that can still write to the face channel
LiveLoops == { t \in ThreadIds : threads[t].pc # "done" }

\* the controlling thread is inside stop()
InStop == ctl["audio"].pc \in {"stop_flag", "stop_joinable", "stop_join", "stop_done"}

\* C12: under a single controlling thread, the step start() takes when it
\* finds the listener running is its return and changes neither the bound
\* port, the thread handle, the flags, the threads nor the channel; every
\* step of a stop() on a stopped listener (not running, no thread to join)
\* leaves running, port, handle, threads and channel unchanged and the stop
\* request set; and at most one receive loop is alive at any time.
C12_StartStopIdempotent ==
    [][ /\ (ctl["audio"].pc = "start_load" /\ lsn.running
             /\ ctl'["audio"] # ctl["audio"])
           => (ctl'["audio"] = Idle /\ lsn' = lsn /\ threads' = threads
                  /\ faceBuf' = faceBuf)
        /\ (InStop /\ ~lsn.running /\ lsn.handle = 0
             /\ ctl'["audio"] # ctl["audio"])
           => (lsn' = [lsn EXCEPT !.shouldStop = TRUE] /\ threads' = threads
                  /\ faceBuf' = faceBuf)
        /\ Cardinality(LiveLoops) <= 1
        /\ Cardinality(LiveLoops') <= 1 ]_vars

\* start() has been called a second time while the first receive loop is
\* receiving and running is set
C12_Witness ==
    /\ ctl["audio"].pc = "start_load"
    /\ lsn.running
    /\ Len(threads) = 1
    /\ threads[1].pc = "recv"
    /\ GetVersion(faceBuf) >= 1

C14_SweepOneRiseOneFall ==
    sweep.phase = "done" => (sweep.rises = 1 /\ sweep.falls = 1 /\ ~sweep.state)

C16_PitchHold ==
    [][ /\ (voice' # voice /\ ~voice'.gateHigh)
           => (voice'.currentPitchV = voice.currentPitchV
                  /\ voice'.smoothedPitchV = voice.smoothedPitchV)
        /\ (voice'.currentPitchV # voice.currentPitchV)
           => (voice'.analysed /\ voice'.gateHigh /\ voice'.connected) ]_vars

\* the gate has closed on a tick whose analysis pass was acceptable, and
\* the pitch held is the one accepted while the gate was open
C16_Witness ==
    /\ ~voice.gateHigh
    /\ voice.connected
    /\ voice.analysed
    /\ voice.band = "below"
    /\ voice.currentPitchV = 100
    /\ voice.smoothedPitchV = 50

\* C17: a pushSample call made with the preset unchanged since the last
\* analysis pass (or since construction) returns true, after one analysis
\* pass, exactly when it is the hopSize-th call since that pass, and
\* hopSize is half of bufferSize.
C17_PassEveryHop ==
    (yin.pc = "idle" /\ yin.pushed /\ yin.wasSteady) =>
        /\ yin.ret <=> yin.gap = yin.obsHop
        /\ yin.gap <= yin.obsHop
        /\ yin.obsHop = yin.obsBuf \div 2
        /\ yin.ret => yin.sampleCount = 0

\* a pass under the LIGHT preset that follows a pass under the same preset
C17_Witness ==
    /\ yin.pc = "idle" /\ yin.pushed /\ yin.wasSteady /\ yin.ret
    /\ yin.qualityMode = LIGHT
    /\ yin.gap = PresetSize(LIGHT) \div 2
    /\ yin.ui = "idle"

\* C18: whenever no preset change is in progress, the selected quality mode
\* is one of the three presets, the window size is the size of that preset
\* and hopSize is half of bufferSize.
C18_WindowMatchesPreset ==
    yin.ui = "idle" =>
        /\ yin.qualityMode \in QualityModes
        /\ yin.bufferSize = PresetSize(yin.qualityMode)
        /\ yin.hopSize = yin.bufferSize \div 2

\* C19: every completed pushSample call has read one configuration: the
\* hopSize it compared with is half of the bufferSize it wrapped writePos
\* with, and the analysis pass it ran read that same bufferSize throughout.
C19_NoMixedConfiguration ==
    (yin.pc = "idle" /\ yin.pushed) =>
        /\ yin.obsHop = yin.obsBuf \div 2
        /\ yin.ret => (yin.obsHalfW = yin.obsHop /\ yin.obsLoop = yin.obsBuf)

\* C20: whenever no control operation is in progress and the listener is
\* running, the port it was started on is the configured port.
C20_RunningOnConfiguredPort ==
    (ctl["ui"].pc = "idle" /\ ctl["audio"].pc = "idle" /\ lsn.running)
        => lsn.listenPort = udpPort

\* C21: no step of Nerve::process waits for the receive thread: whenever the
\* tick is inside the join of stop(), the thread it joins has already left
\* its receive loop, so the join returns at once.
C21_TickNeverWaits ==
    ctl["audio"].pc = "stop_join" => threads[ctl["audio"].joining].pc = "done"

\* the channel a receive loop publishes to
ChannelOf(loop, face, dep, skel) ==
    CASE loop = "nerve" -> face [] loop = "depth" -> dep [] OTHER -> skel

\* C22: every pass of a receive loop leaves the loop receiving, and raises
\* the version of the loop's channel by exactly 1 if the datagram was
\* decoded and by 0 if it was not (malformed, or no datagram at all).
C22_MalformedNotFatal ==
    [][ nDatagrams' = nDatagrams + 1 =>
          /\ GetVersion(ChannelOf(lastRx'.loop, faceBuf', depthBuf', skelBuf'))
                = GetVersion(ChannelOf(lastRx'.loop, faceBuf, depthBuf, skelBuf))
                    + (IF lastRx'.ok THEN 1 ELSE 0)
          /\ (~lastRx'.ok) =>
                 (faceBuf' = faceBuf /\ depthBuf' = depthBuf /\ skelBuf' = skelBuf) ]_vars

\* a valid depth datagram published after a malformed datagram
C22_Witness ==
    /\ nDatagrams = 2
    /\ lastRx.bad = 1
    /\ lastRx.loop = "depth"
    /\ lastRx.ok
    /\ GetVersion(depthBuf) = 1

\* the timestamp the sender put on the wire after the floats of its layout;
\* 0 if the datagram ends before it
WireTimestamp(pkt) == IF 8 + 4 * pkt.nfl + 8 <= pkt.len THEN pkt.ts ELSE 0

\* the snapshot a reader of the channel gets
Published(buf) == buf.buffers[ReadIndex(buf)]

\* C23: the snapshot the face or the depth loop has just published carries
\* the wire timestamp of its datagram if that is non-zero, and the arrival
\* time (the clock read during the pass) if it is zero or absent; it never
\* carries timestamp 0.
C23_TimestampStamped ==
    (lastRx.loop \in {"nerve", "depth"} /\ lastRx.ok) =>
        LET snap == Published(ChannelOf(lastRx.loop, faceBuf, depthBuf, skelBuf))
        IN  /\ snap.timestamp =
                  (IF WireTimestamp(lastRx.pkt) = 0 THEN clock - 1
                   ELSE WireTimestamp(lastRx.pkt))
            /\ snap.timestamp # 0

\* a write to the channel whose snapshot does not carry an older timestamp
\* than the snapshot published before it
NotOlder(buf, next) ==
    (GetVersion(next) > GetVersion(buf) /\ GetVersion(buf) >= 1)
        => Published(next).timestamp >= Published(buf).timestamp

\* C24: within each channel, a published snapshot never carries a timestamp
\* lower than the snapshot published before it.
C24_TimestampsMonotonic ==
    [][ /\ NotOlder(faceBuf, faceBuf')
        /\ NotOlder(depthBuf, depthBuf')
        /\ NotOlder(skelBuf, skelBuf') ]_vars

\* C25: while the loop runs, once two full windows have passed since the
\* last published packet (or none was ever published), the exposed rate
\* is 0.
C25_RateFallsToZero ==
    (~fps.published \/ fps.now - fps.lastPublish >= 2 * FpsWindow)
        => fps.currentFPS = 0

\* C26: on every tick the smoothing time passed to a SlewSmoother is a
\* number within [0, 2] seconds; if it is below 0.001 the output is the
\* target of the tick, and otherwise the divisor smoothTime * 0.5 +
\* sampleTime is strictly positive and the output is a number.
C26_SmoothTimeSafe ==
    slew.nTicks > 0 =>
        /\ InRange(slew.smoothTime, 0, 2000000)
        /\ slew.defined
        /\ IF slew.smoothTime.v < 1000
           THEN slew.value = slew.target
           ELSE SlewDivisor2(slew.smoothTime, slew.sampleTime) > 0

\* a tick whose smoothing CV is a NaN: the time is clamped to 2 s and the
\* smoother moves towards its target
C26_Witness ==
    /\ slew.nTicks = 2
    /\ slew.smoothCV = NaN
    /\ slew.smoothTime = F(2000000)
    /\ slew.target = 1000
    /\ slew.value > 0
    /\ slew.value < 1000

\* C27: the voiced gate of Voice opens only on a voiced input: on every
\* tick of Voice::process where the most recent pitch confidence is at or
\* below 0.3, gateHigh does not go from false to true.
C27_GateOpensOnlyVoiced ==
    [][ (voice'.connected /\ voice'.gateHigh /\ ~voice.gateHigh)
            => voice'.confidence > 30 ]_vars

\* C28: on every tick of Voice::process with the audio input disconnected,
\* the V/OCT, GATE, ENV, ONSET, BRIGHT and HARM outputs are all 0 V and no
\* analysis state (pitch window, envelope, gate, onset detector, held
\* pitch) is modified.
C28_UnconnectedBypass ==
    [][ (voice'.nTicks = voice.nTicks + 1 /\ ~voice'.connected)
            => /\ voice'.out = ZeroOutputs
               /\ voice'.gateHigh = voice.gateHigh
               /\ voice'.envelope = voice.envelope
               /\ voice'.currentPitchV = voice.currentPitchV
               /\ voice'.smoothedPitchV = voice.smoothedPitchV
               /\ yin' = yin
               /\ onset' = onset ]_vars

\* a tick without input that followed a tick with the gate open: the
\* outputs are at 0 V while the gate, the envelope and the pitch are kept
C28_Witness ==
    /\ voice.nTicks = 2
    /\ ~voice.connected
    /\ voice.out = ZeroOutputs
    /\ voice.gateHigh
    /\ voice.envelope = F(19201)
    /\ voice.currentPitchV = 100
    /\ voice.smoothedPitchV = 50

C30_DispatchByMagic ==
    [][ (nDatagrams' = nDatagrams + 1 /\ lastRx'.loop \in {"depth", "skel"}
            /\ lastRx'.pkt.len > 0)
          => LET kint == ParseKintPacket(lastRx'.pkt).ok
                 skel == ParseSkelPacket(lastRx'.pkt).ok
             IN  /\ kint => GetVersion(depthBuf') = GetVersion(depthBuf) + 1
                 /\ skel => GetVersion(skelBuf') = GetVersion(skelBuf) + 1
                 /\ ~kint => depthBuf' = depthBuf
                 /\ ~skel => skelBuf' = skelBuf ]_vars

\* byte offset of the timestamp in the Bridge Protocol table of the README
ReadmeTimestampOffset == 88

\* the datagram carries its timestamp where the README documents it
ReadmeLayout(pkt) ==
    /\ pkt.magic = "NERV"
    /\ pkt.ver = 2
    /\ NERVE_HEADER_SIZE + 4 * pkt.nfl = ReadmeTimestampOffset
    /\ pkt.len >= ReadmeTimestampOffset + 8

\* C31: for a version-2 NERV packet laid out as the README documents
\* (timestamp at byte offset 88), parsePacket reads the timestamp from the
\* documented offset and reads every parameter from the parameter block
\* only (bytes 8 to 88).
C31_ReadmeLayoutDecoded ==
    (decoded.by = "parsePacket" /\ decoded.res.ok /\ ReadmeLayout(decoded.pkt))
        => /\ decoded.res.out.timestamp = decoded.pkt.ts
           /\ decoded.res.out.tongue
                 = Clamp(FloatOf((decoded.pkt.a + 17) % NRawWords), FZero, FOne)
           /\ \/ ~NervUsesV2(decoded.pkt)
              \/ NERVE_HEADER_SIZE + 80 + 4 <= ReadmeTimestampOffset

\* C32: pushSample declares an onset exactly at those window boundaries,
\* outside the cooldown, at which the RMS energy of the window exceeds 1.5
\* times the RMS energy of the window before and exceeds 1.2 times the
\* adaptive threshold just updated: every such boundary gives an onset and
\* no other call does.
C32_OnsetExactlyOnRise ==
    onset.nPushes > 0 =>
        (onset.ret <=>
            /\ onset.sampleCount = 0
            /\ (onset.ret \/ onset.cooldownSamples <= 0)
            /\ 2 * onset.currentEnergy > 3 * onset.prevEnergy
            /\ 1000 * onset.currentEnergy > 12 * onset.adaptiveThreshold)

\* the lags analyze searches
LagRange(l) == MinLag(l.sampleRate)..(MaxLag(l.halfW, l.sampleRate) - 1)

\* C33: when analyze rejects a window it sets confidence to 0 and leaves
\* detectedFreq unchanged; when it accepts, confidence is within [0, 1] and
\* the chosen lag is within [minLag, maxLag).
C33_RejectHoldsFrequency ==
    lag.done =>
        /\ ~lag.accepted => (lag.confidence = 0 /\ lag.detectedFreq = lag.before)
        /\ lag.accepted => /\ 0 <= lag.confidence /\ lag.confidence <= 100
                           /\ lag.bestTau \in LagRange(lag)

\* a pass rejected after a pass that had found 440 Hz with confidence 0.9:
\* the global minimum of the curve is 0.51
C33_Witness ==
    /\ lag.done
    /\ ~lag.accepted
    /\ lag.fallback
    /\ lag.bestTau >= 2
    /\ lag.cmnd[lag.bestTau] = 51
    /\ lag.detectedFreq = [num |-> 440, den |-> 1]
    /\ lag.confidence = 0

\* the lags of the range whose value is below the threshold
BelowThreshold(l) == {t \in LagRange(l) : l.cmnd[t] < DipThreshold}

\* t is reached from f by a strict descent that stops at t
DescentFrom(l, f, t) ==
    /\ f <= t
    /\ \A u \in f..(t - 1) : l.cmnd[u + 1] < l.cmnd[u]
    /\ (t + 1 \in LagRange(l)) => ~(l.cmnd[t + 1] < l.cmnd[t])

\* C34: for every normalized-difference curve over [minLag, maxLag), the
\* chosen lag is the local minimum reached by descending from the first lag
\* whose value is below 0.15; if no lag is below 0.15 the chosen lag is the
\* first global minimum of the range, accepted only if its value is at most
\* 0.5.
C34_LagSelection ==
    (lag.done /\ LagRange(lag) # {}) =>
        IF BelowThreshold(lag) # {}
        THEN /\ lag.accepted
             /\ \E f \in BelowThreshold(lag) :
                  /\ \A g \in BelowThreshold(lag) : f <= g
                  /\ DescentFrom(lag, f, lag.bestTau)
        ELSE /\ lag.accepted <=> \E u \in LagRange(lag) : lag.cmnd[u] <= AcceptLimit
             /\ lag.accepted =>
                  /\ lag.bestTau \in LagRange(lag)
                  /\ \A u \in LagRange(lag) :
                       /\ lag.cmnd[lag.bestTau] <= lag.cmnd[u]
                       /\ u < lag.bestTau => lag.cmnd[lag.bestTau] < lag.cmnd[u]

\* the first lag below the threshold was not a local minimum: the pass
\* descended from lag 2 to lag 3 and stopped before the rise at lag 4
C34_Witness ==
    /\ lag.done
    /\ lag.accepted
    /\ lag.sampleRate = 8000
    /\ lag.cmnd[2] = 14
    /\ lag.cmnd[3] = 10
    /\ lag.cmnd[4] = 50
    /\ lag.bestTau = 3

\* the controlling thread c is inside start(), past the test of running
InStart(c) == ctl[c].pc \in {"start_flags", "start_run", "start_thread"}

\* the controlling thread c is inside stop()
StopInProgress(c) == ctl[c].pc \in {"stop_flag", "stop_joinable", "stop_join", "stop_done"}

\* C35: with nerve::UDPListener driven by the port field of the UI
\* (stop(); start(port)) and by the periodic check of the audio tick, no
\* interleaving lets start() run while a stop() or another start() is in
\* progress on the listener, creates a second receive loop, or assigns a
\* new thread over a handle that is still joinable.
C35_NoOverlappingControl ==
    /\ \A c \in Controllers, d \in Controllers :
         (c # d /\ InStart(c)) => ~(StopInProgress(d) \/ InStart(d))
    /\ Cardinality({t \in ThreadIds : threads[t].pc # "done"}) <= 1
    /\ crashed # "assign"

\* C36: stop() terminates: every receive call returning within its timeout
\* and the threads being scheduled fairly, every call of stop() eventually
\* returns (with running stored false), whether or not packets keep
\* arriving.  A process that has reached std::terminate is left aside.
C36_StopReturns ==
    \A c \in Controllers :
        StopInProgress(c) ~> (~StopInProgress(c) \/ ~Alive)

\* C37: for every SKEL datagram of any length and any wire-supplied
\* jointCount and bodyIndex in 0..255, parseSkelPacket and runSkel never
\* read a byte at or beyond the received length, never write a joint at an
\* index >= MAX_SKEL_JOINTS and never write a body at an index >=
\* MAX_SKEL_BODIES.
C37_SkelWithinBounds ==
    [][ (nDatagrams' = nDatagrams + 1 /\ lastRx'.loop = "skel" /\ lastRx'.pkt.len > 0)
          => /\ SkelReadEnd(lastRx'.pkt) <= lastRx'.pkt.len
             /\ lastRx'.ok =>
                  LET snap == Published(skelBuf')
                      body == ParseSkelPacket(lastRx'.pkt).out
                  IN  /\ DOMAIN body.joints \subseteq 0..(MAX_SKEL_JOINTS - 1)
                      /\ DOMAIN snap.bodies = 0..(MAX_SKEL_BODIES - 1)
                      /\ \E i \in 0..(MAX_SKEL_BODIES - 1) :
                           /\ snap.bodies[i] = body
                           /\ \A j \in 0..(MAX_SKEL_BODIES - 1) :
                                j # i => snap.bodies[j] = Published(skelBuf).bodies[j] ]_vars

\* a datagram with body index 2 and joint count 255 was published: the body
\* is in the last slot with the 32 joints that were decoded
C37_Witness ==
    /\ lastRx.loop = "skel"
    /\ lastRx.ok
    /\ lastRx.pkt.b6 = 2
    /\ lastRx.pkt.b7 = 255
    /\ lastRx.jc = MAX_SKEL_JOINTS
    /\ Published(skelBuf).bodies[MAX_SKEL_BODIES - 1].bodyIndex = 2
    /\ DOMAIN Published(skelBuf).bodies[MAX_SKEL_BODIES - 1].joints = 0..(MAX_SKEL_JOINTS - 1)

\* C38: isRunning() is accurate for the listener of two ports: in every
\* reachable state of DepthUDPListener, isRunning() == false implies that
\* neither the depth loop nor the skeleton loop is active (no channel can
\* still be written), also after the socket of only one of the two ports
\* failed to open.
C38_NotRunningMeansNoLoop ==
    ~dlsn.running =>
        (~LoopActive(dlsn.depthThread) /\ ~LoopActive(dlsn.skelThread))

\* C39: the cursor of the pitch window stays inside the active window:
\* between calls (no pushSample and no setBufferSize in progress)
\* 0 <= writePos < bufferSize and 0 <= sampleCount < hopSize hold in every
\* state reachable by any interleaving of pushSample and setBufferSize.
C39_CursorInsideWindow ==
    (yin.pc = "idle" /\ yin.ui = "idle") =>
        /\ 0 <= yin.writePos /\ yin.writePos < yin.bufferSize
        /\ 0 <= yin.sampleCount /\ yin.sampleCount < yin.hopSize

====
